---- MODULE Spec2Model ----
(***************************************************************************)
(* Model of the CNPJ impact analyzer: the impact classifier, the line      *)
(* scanner of BaseAnalyzer, the PHP migration path of PHPAnalyzer, the     *)
(* AnalyzerFactory and the thread pool of CNPJAnalyzerModular.             *)
(* Text is modelled as TLA+ strings, one character per position; regular   *)
(* expressions are data interpreted by a backtracking matcher (RM) that    *)
(* follows the priority order of Python's re module.                       *)
(***************************************************************************)
EXTENDS Integers, Sequences, FiniteSets, TLC

VARIABLES
    ftype,      \* classifier run: type tag, PHP type name or source line
    fsize,      \* classifier run: size, or Null
    verdict,    \* classifier run: what the classifier returned, or NoVerdict
    ptag,       \* factory run: tag handed to create_analyzer
    manifest,   \* factory run: what detect_project_type finds on disk
    analyzer,   \* analyzer object created, or NoAnalyzer
    raised,     \* exception that reached the caller, or NoError
    project,    \* project run: files of the directory, in rglob order
    filters,    \* project run: the filters argument
    apc,        \* project run: position of analyze_project
    scanned,    \* project run: the list "files" built by scan_files
    warnings,   \* project run: paths logged by logger.warning in scan_files
    result,     \* project run: dictionary returned, or NoResult
    pool,       \* driver run: analyze_all_projects and its thread pool
    registry,   \* extractor factory: its dictionary _extractors, or NoRegistry
    session     \* consecutive analyses through one factory, or NoSession

vars == <<ftype, fsize, verdict, ptag, manifest, analyzer, raised, project,
          filters, apc, scanned, warnings, result, pool, registry,
          session>>

-----------------------------------------------------------------------------
(* Bounds of the model *)

\* largest field size tried
MaxSize == 26

-----------------------------------------------------------------------------
(* Characters and strings *)

\* Python None in an Optional[int]; sizes are non-negative
Null == -1

Ch(s, i) == SubSeq(s, i, i)

UpperAlpha == "ABCDEFGHIJKLMNOPQRSTUVWXYZ"
LowerAlpha == "abcdefghijklmnopqrstuvwxyz"
DigitChars == "0123456789"

UpperSet == { Ch(UpperAlpha, i) : i \in 1..26 }
LowerSet == { Ch(LowerAlpha, i) : i \in 1..26 }
DigitSet == { Ch(DigitChars, i) : i \in 1..10 }
WordSet == UpperSet \cup LowerSet \cup DigitSet \cup {"_"}
SpaceSet == {" ", "\t", "\n"}
QuoteSet == {"'", "\""}

LowerMap == [c \in UpperSet |->
                Ch(LowerAlpha, CHOOSE i \in 1..26 : Ch(UpperAlpha, i) = c)]

DigitMap == [c \in DigitSet |->
                (CHOOSE i \in 1..10 : Ch(DigitChars, i) = c) - 1]

ToLowerChar(c) == IF c \in UpperSet THEN LowerMap[c] ELSE c

RECURSIVE Lower(_)
Lower(s) == IF Len(s) = 0 THEN ""
            ELSE ToLowerChar(Ch(s, 1)) \o Lower(SubSeq(s, 2, Len(s)))

RECURSIVE ParseInt(_)
ParseInt(s) == IF Len(s) = 0 THEN 0
               ELSE 10 * ParseInt(SubSeq(s, 1, Len(s) - 1)) + DigitMap[Ch(s, Len(s))]

RECURSIVE ContainsAt(_, _, _)
ContainsAt(s, sub, i) ==
    IF i + Len(sub) - 1 > Len(s) THEN FALSE
    ELSE IF SubSeq(s, i, i + Len(sub) - 1) = sub THEN TRUE
    ELSE ContainsAt(s, sub, i + 1)

\* Python: sub in s
Contains(s, sub) == ContainsAt(s, sub, 1)

\* Python: s.endswith(sub)
EndsWith(s, sub) ==
    /\ Len(sub) <= Len(s)
    /\ SubSeq(s, Len(s) - Len(sub) + 1, Len(s)) = sub

RECURSIVE LStrip(_)
LStrip(s) == IF Len(s) > 0 /\ Ch(s, 1) \in SpaceSet
             THEN LStrip(SubSeq(s, 2, Len(s))) ELSE s

RECURSIVE RStrip(_)
RStrip(s) == IF Len(s) > 0 /\ Ch(s, Len(s)) \in SpaceSet
             THEN RStrip(SubSeq(s, 1, Len(s) - 1)) ELSE s

\* Python: s.strip()
Strip(s) == RStrip(LStrip(s))

-----------------------------------------------------------------------------
(* Regular expressions.  A pattern is a sequence of atoms:                 *)
(*   Lit(s)   the literal text s                                           *)
(*   Plus(c)  c+  and  Star(c)  c*   (greedy) for a character class c      *)
(*   One(c)   one character of class c                                     *)
(*   Eos      the end of the text ($)                                      *)
(*   GO, GC   open and close a capture group                               *)
(* Classes: "w" \w, "d" \d, "s" \s, "." any but a newline, "q" ['"],       *)
(* "nq" [^'"], "np" [^)], "a" [a-zA-Z_], "br" [\[\]], "U" [A-Z],           *)
(* "l" [a-zA-Z], "nlt" [^<].                                               *)

Lit(s) == [k |-> "lit", s |-> s]
Plus(c) == [k |-> "rep", c |-> c, min |-> 1]
Star(c) == [k |-> "rep", c |-> c, min |-> 0]
One(c) == [k |-> "one", c |-> c]
Eos == [k |-> "eos"]
GO == [k |-> "go"]
GC == [k |-> "gc"]
Opt(c) == [k |-> "opt", c |-> c, min |-> 0]

InClass(c, ch) ==
    CASE c = "w" -> ch \in WordSet
      [] c = "d" -> ch \in DigitSet
      [] c = "s" -> ch \in SpaceSet
      [] c = "." -> ch # "\n"
      [] c = "q" -> ch \in QuoteSet
      [] c = "nq" -> ch \notin QuoteSet
      [] c = "np" -> ch # ")"
      [] c = "a" -> ch \in UpperSet \cup LowerSet \cup {"_"}
      [] c = "br" -> ch \in {"[", "]"}
      [] c = "U" -> ch \in UpperSet
      [] c = "l" -> ch \in UpperSet \cup LowerSet
      [] c = "nlt" -> ch # "<"

LitAt(s, lit, i, ci) ==
    /\ i + Len(lit) - 1 <= Len(s)
    /\ IF ci THEN Lower(SubSeq(s, i, i + Len(lit) - 1)) = Lower(lit)
             ELSE SubSeq(s, i, i + Len(lit) - 1) = lit

RECURSIVE RunLen(_, _, _)
RunLen(s, i, c) == IF i <= Len(s) /\ InClass(c, Ch(s, i))
                   THEN 1 + RunLen(s, i + 1, c) ELSE 0

NoMatch == [ok |-> FALSE, start |-> 0, end |-> 0, caps |-> <<>>]

RECURSIVE RM(_, _, _, _, _, _, _)
RECURSIVE TryRep(_, _, _, _, _, _, _, _)

\* match atoms k.. of pat against s from position i; gs is the start of the
\* open group and caps the groups closed so far
RM(pat, k, s, i, ci, gs, caps) ==
    IF k > Len(pat) THEN [ok |-> TRUE, start |-> 0, end |-> i, caps |-> caps]
    ELSE LET a == pat[k] IN
      CASE a.k = "lit" ->
             IF LitAt(s, a.s, i, ci)
             THEN RM(pat, k + 1, s, i + Len(a.s), ci, gs, caps) ELSE NoMatch
        [] a.k = "one" ->
             IF i <= Len(s) /\ InClass(a.c, Ch(s, i))
             THEN RM(pat, k + 1, s, i + 1, ci, gs, caps) ELSE NoMatch
        [] a.k = "rep" -> TryRep(pat, k, s, i, ci, gs, caps, RunLen(s, i, a.c))
        [] a.k = "opt" ->
             TryRep(pat, k, s, i, ci, gs, caps,
                    IF i <= Len(s) /\ InClass(a.c, Ch(s, i)) THEN 1 ELSE 0)
        [] a.k = "eos" ->
             IF i = Len(s) + 1
             THEN RM(pat, k + 1, s, i, ci, gs, caps) ELSE NoMatch
        [] a.k = "go" -> RM(pat, k + 1, s, i, ci, i, caps)
        [] a.k = "gc" ->
             RM(pat, k + 1, s, i, ci, gs, Append(caps, SubSeq(s, gs, i - 1)))

\* greedy repetition: the longest run first, then shorter ones
TryRep(pat, k, s, i, ci, gs, caps, n) ==
    IF n < pat[k].min THEN NoMatch
    ELSE LET r == RM(pat, k + 1, s, i + n, ci, gs, caps) IN
         IF r.ok THEN r ELSE TryRep(pat, k, s, i, ci, gs, caps, n - 1)

RECURSIVE SearchFrom(_, _, _, _)
SearchFrom(pat, s, ci, i) ==
    IF i > Len(s) + 1 THEN NoMatch
    ELSE LET r == RM(pat, 1, s, i, ci, 0, <<>>) IN
         IF r.ok THEN [r EXCEPT !.start = i]
         ELSE SearchFrom(pat, s, ci, i + 1)

\* re.search(pat, s) and re.search(pat, s, re.IGNORECASE)
Search(pat, s) == SearchFrom(pat, s, FALSE, 1)
SearchI(pat, s) == SearchFrom(pat, s, TRUE, 1)

-----------------------------------------------------------------------------
(* Impact classifier *)

NoVerdict == [by |-> "none"]

Rank(impact) == CASE impact = "LOW" -> 1 [] impact = "MEDIUM" -> 2
                  [] impact = "HIGH" -> 3 [] impact = "CRITICAL" -> 4

RECURSIVE IntToStr(_)
\* Python: str(n) for n >= 0, as used by the f-strings of the action texts
IntToStr(n) == IF n < 10 THEN Ch(DigitChars, n + 1)
               ELSE IntToStr(n \div 10) \o Ch(DigitChars, (n % 10) + 1)

\* action texts (accents of the source dropped)
ToVarchar18 == "Alterar tipo para VARCHAR(18)"
NoChange == "Nenhuma alteracao necessaria"
ManualReview == "Analise manual necessaria"
CharTo18 == "Alterar para VARCHAR(18) ou aumentar CHAR para 18"
CriticalAction(size) ==
    "CRITICO: Tamanho " \o IntToStr(size) \o " < 14. Alterar para VARCHAR(18)"
IncreaseAction(size) ==
    "Aumentar tamanho de " \o IntToStr(size) \o " para 18"

min_cnpj_size == 14
ideal_cnpj_size == 18

\* Python truthiness of an Optional[int]: None and 0 are false
Truthy(size) == size # Null /\ size # 0

V(impact, status, action) ==
    [impact |-> impact, status |-> status, action |-> action]

\* BaseAnalyzer._assess_impact with the boundary of the first size test
\* shifted (<= instead of <)
AssessImpactInclusiveMin(field_type, field_size) ==
    IF field_type = "INTEGER" THEN V("HIGH", "INCOMPATIBLE", ToVarchar18)
    ELSE IF field_type \in {"VARCHAR", "CHAR"} THEN
        IF Truthy(field_size) /\ field_size <= min_cnpj_size
            THEN V("CRITICAL", "INCOMPATIBLE", CriticalAction(field_size))
        ELSE IF Truthy(field_size) /\ field_size < ideal_cnpj_size
            THEN V("MEDIUM", "ATTENTION", IncreaseAction(field_size))
        ELSE IF Truthy(field_size) \/ field_type = "CHAR"
            THEN V("LOW", "COMPATIBLE", NoChange)
        ELSE V("MEDIUM", "NEEDS_ANALYSIS", ManualReview)
    ELSE IF field_type = "TEXT" THEN V("LOW", "COMPATIBLE", NoChange)
    ELSE V("MEDIUM", "NEEDS_ANALYSIS", ManualReview)

\* a classifier that takes size 14, the legacy fixed length, for compatible
AssessImpactLegacyLengthLow(field_type, field_size) ==
    IF field_type = "INTEGER" THEN V("HIGH", "INCOMPATIBLE", ToVarchar18)
    ELSE IF field_type \in {"VARCHAR", "CHAR"} THEN
        IF Truthy(field_size) /\ field_size < min_cnpj_size
            THEN V("CRITICAL", "INCOMPATIBLE", CriticalAction(field_size))
        ELSE IF Truthy(field_size) /\ field_size = min_cnpj_size
            THEN V("LOW", "COMPATIBLE", NoChange)
        ELSE IF Truthy(field_size) /\ field_size < ideal_cnpj_size
            THEN V("MEDIUM", "ATTENTION", IncreaseAction(field_size))
        ELSE IF Truthy(field_size) \/ field_type = "CHAR"
            THEN V("LOW", "COMPATIBLE", NoChange)
        ELSE V("MEDIUM", "NEEDS_ANALYSIS", ManualReview)
    ELSE IF field_type = "TEXT" THEN V("LOW", "COMPATIBLE", NoChange)
    ELSE V("MEDIUM", "NEEDS_ANALYSIS", ManualReview)

\* a classifier whose last branch lets an unrecognised tag pass
AssessImpactDefaultLow(field_type, field_size) ==
    IF field_type = "INTEGER" THEN V("HIGH", "INCOMPATIBLE", ToVarchar18)
    ELSE IF field_type \in {"VARCHAR", "CHAR"} THEN
        IF Truthy(field_size) /\ field_size < min_cnpj_size
            THEN V("CRITICAL", "INCOMPATIBLE", CriticalAction(field_size))
        ELSE IF Truthy(field_size) /\ field_size < ideal_cnpj_size
            THEN V("MEDIUM", "ATTENTION", IncreaseAction(field_size))
        ELSE IF Truthy(field_size) \/ field_type = "CHAR"
            THEN V("LOW", "COMPATIBLE", NoChange)
        ELSE V("MEDIUM", "NEEDS_ANALYSIS", ManualReview)
    ELSE V("LOW", "COMPATIBLE", NoChange)

\* BaseAnalyzer._assess_impact
AssessImpact(field_type, field_size) ==
    IF field_type = "INTEGER" THEN V("HIGH", "INCOMPATIBLE", ToVarchar18)
    ELSE IF field_type = "VARCHAR" THEN
        IF Truthy(field_size) /\ field_size < min_cnpj_size
            THEN V("CRITICAL", "INCOMPATIBLE", CriticalAction(field_size))
        ELSE IF Truthy(field_size) /\ field_size < ideal_cnpj_size
            THEN V("MEDIUM", "ATTENTION", IncreaseAction(field_size))
        ELSE IF Truthy(field_size) /\ field_size >= ideal_cnpj_size
            THEN V("LOW", "COMPATIBLE", NoChange)
        ELSE V("MEDIUM", "NEEDS_ANALYSIS", ManualReview)
    ELSE IF field_type = "CHAR" THEN
        IF Truthy(field_size) /\ field_size < min_cnpj_size
            THEN V("CRITICAL", "INCOMPATIBLE", CriticalAction(field_size))
        ELSE IF Truthy(field_size) /\ field_size < ideal_cnpj_size
            THEN V("MEDIUM", "ATTENTION", CharTo18)
        ELSE V("LOW", "COMPATIBLE", NoChange)
    ELSE IF field_type = "TEXT" THEN V("LOW", "COMPATIBLE", NoChange)
    ELSE V("MEDIUM", "NEEDS_ANALYSIS", ManualReview)

\* CNPJAnalyzer._assess_impact (the single-file analyzer)
LegacyAssessImpact(field_type, field_size) ==
    IF field_type = "INTEGER" THEN V("HIGH", "INCOMPATIBLE", ToVarchar18)
    ELSE IF field_type = "VARCHAR" /\ Truthy(field_size) /\ field_size < 18
        THEN V("MEDIUM", "ATTENTION", IncreaseAction(field_size))
    ELSE IF field_type = "VARCHAR" /\ Truthy(field_size) /\ field_size >= 18
        THEN V("LOW", "COMPATIBLE", NoChange)
    ELSE IF field_type = "CHAR" /\ Truthy(field_size) /\ field_size < 18
        THEN V("MEDIUM", "ATTENTION", CharTo18)
    ELSE IF field_type = "TEXT" THEN V("LOW", "COMPATIBLE", NoChange)
    ELSE V("MEDIUM", "NEEDS_ANALYSIS", ManualReview)

\* BaseAnalyzer._estimate_effort
EstimateEffort(impact_level) ==
    CASE impact_level = "LOW" -> "1-2 horas"
      [] impact_level = "MEDIUM" -> "4-8 horas"
      [] impact_level = "HIGH" -> "1-2 dias"
      [] impact_level = "CRITICAL" -> "2-5 dias"
      [] OTHER -> "A definir"

-----------------------------------------------------------------------------
(* BaseAnalyzer: detection patterns, name capture, type extraction *)

\* BaseAnalyzer.cnpj_patterns['field_names']
field_names == << "cnpj", "cpf_cnpj", "cpfcnpj", "nr_documento", "documento",
                  "numero_documento", "cnpj_cpf", "documento_fiscal",
                  "cpfcnpjpagador", "cpf_cnpj_base", "cnpj_base",
                  "cpfcnpj_indicador", "cpfcnpj_indicado",
                  "cpf_cnpj_indicador", "cpf_cnpj_indicado", "CpfCnpj",
                  "CpfCnpjValidator" >>

\* re.search(pattern, line, re.IGNORECASE) for a pattern without operators
HitsI(pattern, line) == SearchI(<<Lit(pattern)>>, line).ok

\* field_patterns of BaseAnalyzer._analyze_cnpj_field
field_patterns == <<
    <<GO, Plus("w"), Lit("cnpj"), Star("w"), GC>>,
    <<GO, Plus("w"), Lit("documento"), Star("w"), GC>>,
    <<GO, Plus("w"), Lit("_cnpj"), Star("w"), GC>>,
    <<GO, Plus("w"), Lit("_cpf_cnpj"), Star("w"), GC>>,
    <<GO, Plus("w"), Lit("cpfcnpj"), Star("w"), GC>>,
    <<GO, Lit("CpfCnpj"), Star("w"), GC>>,
    <<GO, Lit("CpfCnpjValidator"), GC>> >>

NoName == ""

RECURSIVE FirstFieldName(_, _)
\* the loop over field_patterns: the first pattern that matches gives the name
FirstFieldName(line, k) ==
    IF k > Len(field_patterns) THEN NoName
    ELSE LET m == SearchI(field_patterns[k], line) IN
         IF m.ok THEN m.caps[1] ELSE FirstFieldName(line, k + 1)

SizedType(name) == <<Lit(name), Star("s"), Lit("("), Star("s"),
                     GO, Plus("d"), GC, Star("s"), Lit(")")>>
PhinxSized(name) == <<Lit(name), Star("."), Lit("'length'"), Star("."),
                      Lit("=>"), Star("s"), GO, Plus("d"), GC>>
LaravelSized(method) == <<Lit(method), Star("s"), Lit("("), Star("s"),
                          One("q"), Plus("nq"), One("q"), Star("s"), Lit(","),
                          Star("s"), GO, Plus("d"), GC, Star("s"), Lit(")")>>
LaravelUnsized(method) == <<Lit(method), Star("s"), Lit("("), Star("s"),
                            One("q"), Plus("nq"), One("q"), Star("s"), Lit(")")>>

\* BaseAnalyzer._extract_field_type_and_size
ExtractFieldTypeAndSize(line) ==
    LET varchar_match == SearchI(SizedType("VARCHAR"), line)
        char_match == SearchI(SizedType("CHAR"), line)
        text_match == HitsI("TEXT", line)
        int_match == HitsI("INT", line) \/ HitsI("BIGINT", line)
        phinx_string_match == SearchI(PhinxSized("'string'"), line)
        phinx_char_match == SearchI(PhinxSized("'char'"), line)
        phinx_text_match == HitsI("'text'", line)
        phinx_integer_match == HitsI("'integer'", line)
        laravel_string_match == SearchI(LaravelSized("$table->string"), line)
        laravel_integer_match == SearchI(LaravelUnsized("$table->integer"), line)
        laravel_text_match == SearchI(LaravelUnsized("$table->text"), line)
    IN  IF varchar_match.ok THEN <<"VARCHAR", ParseInt(varchar_match.caps[1])>>
        ELSE IF char_match.ok THEN <<"CHAR", ParseInt(char_match.caps[1])>>
        ELSE IF text_match THEN <<"TEXT", Null>>
        ELSE IF int_match THEN <<"INTEGER", Null>>
        ELSE IF phinx_string_match.ok
            THEN <<"VARCHAR", ParseInt(phinx_string_match.caps[1])>>
        ELSE IF phinx_char_match.ok
            THEN <<"CHAR", ParseInt(phinx_char_match.caps[1])>>
        ELSE IF phinx_text_match THEN <<"TEXT", Null>>
        ELSE IF phinx_integer_match THEN <<"INTEGER", Null>>
        ELSE IF laravel_string_match.ok
            THEN <<"VARCHAR", ParseInt(laravel_string_match.caps[1])>>
        ELSE IF laravel_integer_match.ok THEN <<"INTEGER", Null>>
        ELSE IF laravel_text_match.ok THEN <<"TEXT", Null>>
        ELSE <<"UNKNOWN", Null>>

\* the CNPJField dataclass
CNPJField(file_path, line_number, field_name, field_type, field_size, context, project_type, impact_level, status, action_needed, estimated_effort) ==
    [file_path |-> file_path, line_number |-> line_number,
     field_name |-> field_name, field_type |-> field_type,
     field_size |-> field_size, context |-> context,
     project_type |-> project_type, impact_level |-> impact_level,
     status |-> status, action_needed |-> action_needed,
     estimated_effort |-> estimated_effort]

\* the CNPJField built from a name, the (type, size) pair ts and the triple
\* v that _assess_impact returned for it
ClassifiedField(project_type, file_path, line_num, field_name, ts, context, v) ==
    CNPJField(file_path, line_num, field_name, ts[1], ts[2], context,
              project_type, v.impact, v.status, v.action,
              EstimateEffort(v.impact))

\* the calls of _assess_impact and _estimate_effort and of the constructor
AssessedField(project_type, file_path, line_num, field_name, ts, context) ==
    ClassifiedField(project_type, file_path, line_num, field_name, ts,
                    context, AssessImpact(ts[1], ts[2]))

\* a scanner that keeps a hit whose name did not extract
AnalyzeCnpjFieldKeepingHit(project_type, file_path, line_num, line) ==
    << AssessedField(project_type, file_path, line_num,
                     FirstFieldName(line, 1), ExtractFieldTypeAndSize(line),
                     Strip(line)) >>

\* BaseAnalyzer._analyze_cnpj_field: the list of the CNPJField it returns,
\* empty when it returns None
AnalyzeCnpjField(project_type, file_path, line_num, line) ==
    IF FirstFieldName(line, 1) = NoName THEN <<>>
    ELSE << AssessedField(project_type, file_path, line_num,
                          FirstFieldName(line, 1),
                          ExtractFieldTypeAndSize(line), Strip(line)) >>

RECURSIVE FieldsOfLine(_, _, _, _, _)
\* the loop over field_names of BaseAnalyzer.find_cnpj_fields for one line:
\* one call of _analyze_cnpj_field for every pattern that hits
FieldsOfLine(project_type, file_path, line_num, line, k) ==
    IF k > Len(field_names) THEN <<>>
    ELSE (IF HitsI(field_names[k], line)
          THEN AnalyzeCnpjField(project_type, file_path, line_num, line)
          ELSE <<>>)
         \o FieldsOfLine(project_type, file_path, line_num, line, k + 1)

RECURSIVE FieldsOfLines(_, _, _, _)
\* the loop over enumerate(lines, 1) of BaseAnalyzer.find_cnpj_fields
FieldsOfLines(project_type, file_path, lines, n) ==
    IF n > Len(lines) THEN <<>>
    ELSE FieldsOfLine(project_type, file_path, n, lines[n], 1)
         \o FieldsOfLines(project_type, file_path, lines, n + 1)

RECURSIVE FindCnpjFields(_, _, _)
\* BaseAnalyzer.find_cnpj_fields over the list files, from index i
FindCnpjFields(project_type, files, i) ==
    IF i > Len(files) THEN <<>>
    ELSE FieldsOfLines(project_type, files[i].file_path, files[i].content, 1)
         \o FindCnpjFields(project_type, files, i + 1)

-----------------------------------------------------------------------------
(* PHPAnalyzer: migrations, code, validations *)

\* PHPMigrationAnalyzer.migration_patterns['phinx']['field_definition']
field_definition == <<Lit("$table->addColumn"), Star("s"), Lit("("), Star("s"),
                      One("q"), GO, Plus("nq"), GC, One("q"), Star("s"),
                      Lit(","), Star("s"), One("q"), GO, Plus("nq"), GC,
                      One("q"), GO, Star("np"), GC, Lit(")")>>

\* PHPMigrationAnalyzer.migration_patterns['phinx']['laravel_field']
laravel_field == <<Lit("$table->"), GO, Plus("w"), GC, Star("s"), Lit("("),
                   Star("s"), One("q"), GO, Plus("nq"), GC, One("q"),
                   GO, Star("np"), GC, Lit(")")>>

\* PHPMigrationAnalyzer._is_index_reference
IsIndexReference(line) ==
    \E name \in {"addIndex", "addUnique", "addForeignKey", "index", "unique"} :
        Search(<<Lit(name), Star("s"), Lit("(")>>, line).ok

\* PHPMigrationAnalyzer._is_cnpj_field and PHPCodeAnalyzer._is_cnpj_field
IsCnpjField(field_name) ==
    \E pattern \in {"cnpj", "cpf_cnpj", "cpfcnpj", "cpfCnpj", "cnpj_cpf",
                    "cnpjcpf"} :
        Search(<<Lit(pattern)>>, Lower(field_name)).ok

\* PHPMigrationAnalyzer._extract_field_size
ExtractFieldSize(options) ==
    LET length_match == Search(<<Lit("'length'"), Star("s"), Lit("=>"),
                                 Star("s"), GO, Plus("d"), GC>>, options)
        second_match == Search(<<Lit(","), Star("s"), GO, Plus("d"), GC>>,
                               options)
    IN  IF length_match.ok THEN ParseInt(length_match.caps[1])
        ELSE IF second_match.ok THEN ParseInt(second_match.caps[1])
        ELSE Null

\* the PHPFieldDefinition dataclass
PHPFieldDefinition(file_path, line_number, field_name, field_type, field_size, context, category) ==
    [file_path |-> file_path, line_number |-> line_number,
     field_name |-> field_name, field_type |-> field_type,
     field_size |-> field_size, context |-> context, category |-> category]

\* the field of a line on which a migration pattern matched: name, type
\* and options are the groups of the match in this order
MatchedMigrationField(file_path, line_num, line, name, type, options) ==
    IF IsCnpjField(name)
    THEN << PHPFieldDefinition(file_path, line_num, name, type,
                               ExtractFieldSize(options), Strip(line),
                               "migration") >>
    ELSE <<>>

\* the Phinx branch and the Laravel branch of the loop body
PhinxBranch(file_path, line_num, line, m) ==
    MatchedMigrationField(file_path, line_num, line, m.caps[1], m.caps[2],
                          m.caps[3])
LaravelBranch(file_path, line_num, line, m) ==
    IF m.ok
    THEN MatchedMigrationField(file_path, line_num, line, m.caps[2],
                               m.caps[1], m.caps[3])
    ELSE <<>>

\* body of the loop of PHPMigrationAnalyzer.analyze_migration_file
MigrationFieldsOfLine(file_path, line_num, line) ==
    IF IsIndexReference(line) THEN <<>>
    ELSE IF Search(field_definition, line).ok
        THEN PhinxBranch(file_path, line_num, line,
                         Search(field_definition, line))
    ELSE LaravelBranch(file_path, line_num, line,
                       Search(laravel_field, line))

RECURSIVE AnalyzeMigrationFile(_, _, _)
\* PHPMigrationAnalyzer.analyze_migration_file, lines n.. of content
AnalyzeMigrationFile(file_path, content, n) ==
    IF n > Len(content) THEN <<>>
    ELSE MigrationFieldsOfLine(file_path, n, content[n])
         \o AnalyzeMigrationFile(file_path, content, n + 1)

\* the leftmost match among the alternatives of a group (a|b|c)
Leftmost(ms) ==
    LET oks == { j \in 1..Len(ms) : ms[j].ok } IN
    IF oks = {} THEN NoMatch
    ELSE ms[CHOOSE j \in oks : \A h \in oks :
                \/ ms[j].start < ms[h].start
                \/ ms[j].start = ms[h].start /\ j <= h]

\* PHPCodeAnalyzer.code_patterns['property'] and ['variable']
PropertySearch(line) ==
    Leftmost(<< Search(<<Lit("public"), Plus("s"), Lit("$"), GO, Plus("w"), GC>>, line),
                Search(<<Lit("private"), Plus("s"), Lit("$"), GO, Plus("w"), GC>>, line),
                Search(<<Lit("protected"), Plus("s"), Lit("$"), GO, Plus("w"), GC>>, line) >>)
VariableSearch(line) ==
    Search(<<Lit("$"), GO, Plus("w"), GC, Star("s"), Lit("=")>>, line)

\* body of the loop of PHPCodeAnalyzer.analyze_code_file
CodeFieldsOfLine(file_path, line_num, line) ==
    LET prop_match == PropertySearch(line)
        var_match == VariableSearch(line)
    IN  IF prop_match.ok THEN
            IF IsCnpjField(prop_match.caps[1])
            THEN << PHPFieldDefinition(file_path, line_num, prop_match.caps[1],
                        "PROPERTY", Null, Strip(line), "code") >>
            ELSE <<>>
        ELSE IF var_match.ok /\ IsCnpjField(var_match.caps[1])
            THEN << PHPFieldDefinition(file_path, line_num, var_match.caps[1],
                        "VARIABLE", Null, Strip(line), "code") >>
        ELSE <<>>

RECURSIVE AnalyzeCodeFile(_, _, _)
\* PHPCodeAnalyzer.analyze_code_file, lines n.. of content
AnalyzeCodeFile(file_path, content, n) ==
    IF n > Len(content) THEN <<>>
    ELSE CodeFieldsOfLine(file_path, n, content[n])
         \o AnalyzeCodeFile(file_path, content, n + 1)

\* body of the loop of PHPValidationAnalyzer.analyze_validation_file
ValidationFieldsOfLine(file_path, line_num, line) ==
    LET rule_match == SearchI(<<One("q"), GO, Star("nq"), Lit("cnpj"),
                                Star("nq"), GC, One("q")>>, line)
        validator_match == Search(<<Lit("CNPJ")>>, line).ok
                            \/ Search(<<Lit("Cnpj")>>, line).ok
    IN  IF rule_match.ok
            THEN << PHPFieldDefinition(file_path, line_num,
                        "validation_rule_" \o IntToStr(line_num),
                        "VALIDATION_RULE", Null, Strip(line), "validation") >>
        ELSE IF validator_match
            THEN << PHPFieldDefinition(file_path, line_num,
                        "validator_" \o IntToStr(line_num),
                        "VALIDATOR", Null, Strip(line), "validation") >>
        ELSE <<>>

RECURSIVE AnalyzeValidationFile(_, _, _)
\* PHPValidationAnalyzer.analyze_validation_file, lines n.. of content
AnalyzeValidationFile(file_path, content, n) ==
    IF n > Len(content) THEN <<>>
    ELSE ValidationFieldsOfLine(file_path, n, content[n])
         \o AnalyzeValidationFile(file_path, content, n + 1)

Digits14 == [j \in 1..14 |-> One("d")]

\* PHPAnalyzer._is_migration_file
IsMigrationFile(file_path) ==
    \/ Contains(Lower(file_path), "migration")
    \/ Contains(file_path, "db/migrations")
    \/ EndsWith(file_path, "_migration.php")
    \/ Search(Digits14 \o <<Lit("_"), Star("."), Lit(".php"), Eos>>,
              file_path).ok

\* PHPAnalyzer._is_test_file
IsTestFile(file_path) ==
    \/ Contains(Lower(file_path), "test")
    \/ Contains(Lower(file_path), "spec")
    \/ Contains(file_path, "tests/")
    \/ EndsWith(file_path, "Test.php")
    \/ EndsWith(file_path, "Spec.php")

\* PHPAnalyzer._is_validation_file
IsValidationFile(file_path) ==
    \E w \in {"validator", "validation", "rule", "validate"} :
        Contains(Lower(file_path), w)

\* a mapping that hands the PHP method name on as the type tag
MapPhpTypeToSqlUnmapped(php_type, size) == <<php_type, size>>

\* PHPAnalyzer._map_php_type_to_sql
MapPhpTypeToSql(php_type, size) ==
    LET php_type_lower == Lower(php_type) IN
    IF php_type_lower \in {"string", "varchar"} THEN <<"VARCHAR", size>>
    ELSE IF php_type_lower \in {"char"} THEN <<"CHAR", size>>
    ELSE IF php_type_lower \in {"text", "longtext"} THEN <<"TEXT", Null>>
    ELSE IF php_type_lower \in {"integer", "int", "bigint"}
        THEN <<"INTEGER", Null>>
    ELSE IF php_type_lower \in {"decimal", "float", "double"}
        THEN <<"DECIMAL", Null>>
    ELSE <<"UNKNOWN", Null>>

\* PHPAnalyzer.analyze_project, the conversion of one migration field
MigrationToCNPJField(field) ==
    AssessedField("php_migration", field.file_path, field.line_number,
                  field.field_name,
                  MapPhpTypeToSql(field.field_type, field.field_size),
                  field.context)

\* PHPAnalyzer.analyze_project, the conversion of one code, validation or
\* test field: impact, status, action and effort are written out by hand
HandWrittenCNPJField(field, project_type, impact, action, effort) ==
    CNPJField(field.file_path, field.line_number, field.field_name,
              field.field_type, field.field_size, field.context, project_type,
              impact, "NEEDS_ANALYSIS", action, effort)

-----------------------------------------------------------------------------
(* BaseAnalyzer: validations, masks, scan_files *)

\* BaseAnalyzer.cnpj_patterns['validation_patterns']
validation_patterns == <<
    <<Lit("cnpj"), Star("."), Lit("validat")>>,
    <<Lit("validat"), Star("."), Lit("cnpj")>>,
    <<Lit("cpf"), Star("."), Lit("cnpj"), Star("."), Lit("validat")>>,
    <<Lit("documento"), Star("."), Lit("validat")>>,
    <<Lit("CpfCnpjValidator")>>,
    <<Lit("cpfcnpj"), Star("."), Lit("validat")>>,
    <<Lit("validat"), Star("."), Lit("cpfcnpj")>>,
    <<Lit("Rule::cnpj")>>,
    <<Lit("cnpj"), Star("."), Lit("rule")>>,
    <<Lit("rule"), Star("."), Lit("cnpj")>> >>

\* BaseAnalyzer.cnpj_patterns['mask_patterns']
mask_patterns == <<
    <<Lit("cnpj"), Star("."), Lit("mask")>>,
    <<Lit("mask"), Star("."), Lit("cnpj")>>,
    <<Lit("format"), Star("."), Lit("cnpj")>>,
    <<Lit("cnpj"), Star("."), Lit("format")>> >>

RECURSIVE HitsOfLine(_, _, _, _, _)
\* the inner loop of find_validations and find_frontend_masks: one entry for
\* every pattern of the list that hits the line
HitsOfLine(patterns, file_path, line_num, line, k) ==
    IF k > Len(patterns) THEN <<>>
    ELSE (IF SearchI(patterns[k], line).ok
          THEN << [file_path |-> file_path, line_number |-> line_num,
                   line |-> Strip(line)] >>
          ELSE <<>>)
         \o HitsOfLine(patterns, file_path, line_num, line, k + 1)

RECURSIVE HitsOfLines(_, _, _, _)
HitsOfLines(patterns, file_path, lines, n) ==
    IF n > Len(lines) THEN <<>>
    ELSE HitsOfLine(patterns, file_path, n, lines[n], 1)
         \o HitsOfLines(patterns, file_path, lines, n + 1)

RECURSIVE FindHits(_, _, _)
\* BaseAnalyzer.find_validations and BaseAnalyzer.find_frontend_masks
FindHits(patterns, files, i) ==
    IF i > Len(files) THEN <<>>
    ELSE HitsOfLines(patterns, files[i].file_path, files[i].content, 1)
         \o FindHits(patterns, files, i + 1)

\* any(pattern in str(file_path) for pattern in patterns):
\* BaseAnalyzer._should_skip_file and BaseAnalyzer._should_include_file
AnyPatternIn(file_path, patterns) ==
    \E k \in 1..Len(patterns) : Contains(file_path, patterns[k])

RECURSIVE SelectExt(_, _, _)
\* project_path.rglob('*' + ext): the files whose name ends with ext
SelectExt(files, ext, i) ==
    IF i > Len(files) THEN <<>>
    ELSE (IF EndsWith(files[i].path, ext) THEN <<files[i]>> ELSE <<>>)
         \o SelectExt(files, ext, i + 1)

RECURSIVE WorkList(_, _, _)
\* the files in the order the two nested loops of scan_files visit them
WorkList(extensions, files, e) ==
    IF e > Len(extensions) THEN <<>>
    ELSE SelectExt(files, extensions[e], 1) \o WorkList(extensions, files, e + 1)

RECURSIVE ExtensionOf(_, _, _)
\* the loop variable ext with which scan_files reached the file
ExtensionOf(extensions, path, e) ==
    IF EndsWith(path, extensions[e]) THEN extensions[e]
    ELSE ExtensionOf(extensions, path, e + 1)

\* PHPAnalyzer.get_file_extensions and PHPAnalyzer.get_skip_patterns
PhpExtensions == <<".php", ".sql", ".yml", ".yaml">>
PhpSkipPatterns == <<"vendor", "node_modules", ".git", "__pycache__", ".venv",
                     "venv", "dist", "build", ".next", ".nuxt", "storage",
                     "bootstrap/cache", "public/build">>

\* ETLAnalyzer.get_file_extensions and ETLAnalyzer.get_skip_patterns
EtlExtensions == <<".ktr", ".kjb", ".xml", ".sql", ".py", ".r", ".scala",
                   ".java", ".sh", ".bash", ".yaml", ".yml", ".json">>
EtlSkipPatterns == <<"node_modules/", "\\.git/", "__pycache__/", "\\.venv/",
                     "venv/", "dist/", "build/", "target/", "bin/", "obj/",
                     "\\.idea/", "\\.vscode/", "*.pyc", "*.pyo", "*.pyd",
                     "*.so", "*.dll", "*.exe">>

-----------------------------------------------------------------------------
(* Values of the variables of a run that has not started *)

NoAnalyzer == [cls |-> "none"]
NoError == "none"
NoManifest == [kind |-> "none"]
NoFilters == [kind |-> "none"]
NoResult == [kind |-> "none"]
NoPool == [kind |-> "none"]
IdlePc == [at |-> "idle"]
NoRegistry == <<>>
NoSession == [kind |-> "none"]

ClassifierIdle == ftype = "" /\ fsize = Null /\ verdict = NoVerdict
FactoryIdle == ptag = "" /\ manifest = NoManifest
ProjectIdle == /\ project = <<>> /\ filters = NoFilters /\ apc = IdlePc
               /\ scanned = <<>> /\ warnings = <<>> /\ result = NoResult
ObjectsIdle == analyzer = NoAnalyzer /\ raised = NoError
PoolIdle == pool = NoPool
RegistryIdle == registry = NoRegistry
SessionIdle == session = NoSession

-----------------------------------------------------------------------------
(* Classifier runs: one call of a classifier on one input *)

TypeTags == {"VARCHAR", "CHAR", "TEXT", "INTEGER", "BIGINT", "DECIMAL",
             "UNKNOWN", "DATE", "JSON", "varchar"}

\* type names a migration hands to _map_php_type_to_sql: Laravel method
\* names and Phinx type names
PhpTypeNames == {"string", "char", "text", "integer", "bigInteger",
                 "biginteger", "int", "bigint", "decimal", "json"}

\* column declarations handed to _extract_field_type_and_size
ColumnLines == {"nr_cnpj INTEGER", "nr_cnpj BIGINT NOT NULL",
                "nr_cnpj bigint(20) unsigned", "nr_cnpj VARCHAR(14)",
                "cpf_cnpj CHAR( 18 ),", "nr_cnpj TEXT", "nr_cnpj DATE"}

Sizes == (0..MaxSize) \cup {Null}

Verdict(by, tag, size, v) ==
    [by |-> by, tag |-> tag, size |-> size, impact |-> v.impact,
     status |-> v.status, action |-> v.action]

InitClassify ==
    /\ ftype \in TypeTags \cup PhpTypeNames \cup ColumnLines
    /\ fsize \in Sizes
    /\ ftype \in ColumnLines => fsize = Null
    /\ verdict = NoVerdict
    /\ FactoryIdle /\ ObjectsIdle /\ ProjectIdle /\ PoolIdle /\ RegistryIdle
    /\ SessionIdle

\* a call of BaseAnalyzer._assess_impact(ftype, fsize)
CallAssessImpact ==
    /\ ftype \in TypeTags /\ verdict = NoVerdict
    /\ verdict' = Verdict("base", ftype, fsize, AssessImpact(ftype, fsize))
    /\ UNCHANGED <<session, registry, ftype, fsize, ptag, manifest, analyzer, raised, project,
                   filters, apc, scanned, warnings, result, pool>>

\* a call of CNPJAnalyzer._assess_impact(ftype, fsize, project_type)
CallLegacyAssessImpact ==
    /\ ftype \in TypeTags /\ verdict = NoVerdict
    /\ verdict' = Verdict("legacy", ftype, fsize,
                          LegacyAssessImpact(ftype, fsize))
    /\ UNCHANGED <<session, registry, ftype, fsize, ptag, manifest, analyzer, raised, project,
                   filters, apc, scanned, warnings, result, pool>>

\* PHPAnalyzer.analyze_project, the two calls made for a migration field
CallMapAndAssess ==
    /\ ftype \in PhpTypeNames /\ verdict = NoVerdict
    /\ \E ts \in {MapPhpTypeToSql(ftype, fsize)} :
          verdict' = Verdict("php_migration", ts[1], ts[2],
                             AssessImpact(ts[1], ts[2]))
    /\ UNCHANGED <<session, registry, ftype, fsize, ptag, manifest, analyzer, raised, project,
                   filters, apc, scanned, warnings, result, pool>>

\* BaseAnalyzer._analyze_cnpj_field, the two calls made for a line
CallExtractAndAssess ==
    /\ ftype \in ColumnLines /\ verdict = NoVerdict
    /\ \E ts \in {ExtractFieldTypeAndSize(ftype)} :
          verdict' = Verdict("base_line", ts[1], ts[2],
                             AssessImpact(ts[1], ts[2]))
    /\ UNCHANGED <<session, registry, ftype, fsize, ptag, manifest, analyzer, raised, project,
                   filters, apc, scanned, warnings, result, pool>>

NextClassify == \/ CallAssessImpact \/ CallLegacyAssessImpact
                \/ CallMapAndAssess \/ CallExtractAndAssess

SpecClassify == InitClassify /\ [][NextClassify]_vars

-----------------------------------------------------------------------------
(* Claims about the classifier *)

CharTypes == {"VARCHAR", "CHAR"}

\* C1: the classifier of BaseAnalyzer returns CRITICAL and INCOMPATIBLE for
\* VARCHAR and CHAR with every present size 0..13, size 0 included.
C1_SmallSizeIsCritical ==
    (verdict.by = "base" /\ ftype \in CharTypes /\ fsize \in 0..13)
        => (verdict.impact = "CRITICAL" /\ verdict.status = "INCOMPATIBLE")

\* C2 as stated: both classifiers return LOW and COMPATIBLE for VARCHAR and
\* CHAR with size exactly 14.
C2_Size14IsLow ==
    (verdict.by \in {"base", "legacy"} /\ ftype \in CharTypes /\ fsize = 14)
        => (verdict.impact = "LOW" /\ verdict.status = "COMPATIBLE")

\* C2 amended: both classifiers return MEDIUM and ATTENTION for VARCHAR and
\* CHAR with size exactly 14 (14 is below the ideal size 18).
C2_Size14IsMediumAttention ==
    (verdict.by \in {"base", "legacy"} /\ ftype \in CharTypes /\ fsize = 14)
        => (verdict.impact = "MEDIUM" /\ verdict.status = "ATTENTION")

C2_Witness ==
    /\ verdict.by = "base" /\ ftype = "VARCHAR" /\ fsize = 14
    /\ verdict.impact = "MEDIUM"

\* C3: both classifiers return LOW and COMPATIBLE for VARCHAR and for CHAR
\* whenever the size is at least 18 or absent.
C3_LargeOrAbsentIsLow ==
    (/\ verdict.by \in {"base", "legacy"} /\ ftype \in CharTypes
     /\ (fsize = Null \/ fsize >= 18))
        => (verdict.impact = "LOW" /\ verdict.status = "COMPATIBLE")

\* names under which a migration declares an INTEGER or BIGINT column
NumericPhpTypes == {"integer", "int", "bigint", "bigInteger", "biginteger"}
NumericColumnLines == {"nr_cnpj INTEGER", "nr_cnpj BIGINT NOT NULL",
                       "nr_cnpj bigint(20) unsigned"}

\* C4: a column declared INTEGER or BIGINT is classified HIGH and
\* INCOMPATIBLE with an action naming VARCHAR(18), on the line path of
\* BaseAnalyzer and on the migration path of PHPAnalyzer.
C4_NumericColumnIsHigh ==
    (\/ verdict.by = "php_migration" /\ ftype \in NumericPhpTypes
     \/ verdict.by = "base_line" /\ ftype \in NumericColumnLines)
        => (/\ verdict.impact = "HIGH" /\ verdict.status = "INCOMPATIBLE"
            /\ Contains(verdict.action, "VARCHAR(18)"))

\* the sizes at which the classifier changes its answer, and one beyond
BoundarySizes == {13, 14, 17, 18, 25}

\* C16: for VARCHAR and for CHAR the impact BaseAnalyzer._assess_impact
\* returns does not increase (LOW < MEDIUM < HIGH < CRITICAL) as the size
\* grows through 13, 14, 17, 18, 25.
C16_ImpactNonIncreasingInSize ==
    (verdict.by = "base" /\ ftype \in CharTypes /\ fsize \in BoundarySizes)
        => \A larger \in BoundarySizes :
              larger > fsize
                 => Rank(AssessImpact(ftype, larger).impact)
                       <= Rank(verdict.impact)

C16_Witness ==
    /\ verdict.by = "base" /\ ftype = "CHAR" /\ fsize = 14
    /\ verdict.impact = "MEDIUM"
    /\ AssessImpact(ftype, 18).impact = "LOW"

\* the tags the classifier has a branch for, and BIGINT, the other numeric
\* tag of the column types
RecognisedTags == {"INTEGER", "BIGINT", "VARCHAR", "CHAR", "TEXT"}

\* C17: for UNKNOWN and for every other tag outside the numeric, character
\* and TEXT tags, with any size or none, BaseAnalyzer._assess_impact returns
\* MEDIUM, NEEDS_ANALYSIS and the manual-review action.
C17_UnrecognisedTagIsMediumDefault ==
    (verdict.by = "base" /\ ftype \notin RecognisedTags)
        => /\ verdict.impact = "MEDIUM" /\ verdict.status = "NEEDS_ANALYSIS"
           /\ verdict.action = ManualReview

C17_Witness ==
    /\ verdict.by = "base" /\ ftype = "UNKNOWN" /\ fsize = 18
    /\ verdict.action = ManualReview

-----------------------------------------------------------------------------
(* Project runs: one call of analyze_project on one project directory *)

\* most files in a project directory
MaxFiles == 3

\* the files a project directory is made of
Catalog == <<
    [path |-> "projects/acme/db/schema.sql",
     content |-> <<"CREATE TABLE empresa (", "cnpj VARCHAR(11)",
                   "  nr_cnpj VARCHAR(14),", "cnpj INTEGER">>],
    [path |-> "projects/acme/etl/load.sql",
     content |-> <<"  cpf_cnpj CHAR(14),", "nr_documento BIGINT,",
                   "-- validate cnpj format">>],
    [path |-> "projects/acme/etl/clientes.py",
     content |-> <<"df['nr_cnpj'] = mask_cnpj(df['nr_cnpj'])">>],
    [path |-> "projects/acme/database/migrations/2024_create_empresas.php",
     content |-> <<"$table->string('cnpj', 18);",
                   "$table->bigInteger('cnpj_matriz');">>],
    [path |-> "projects/acme/app/Models/Empresa.php",
     content |-> <<"class Empresa {", "    private $cnpj;">>],
    [path |-> "projects/acme/app/Rules/CnpjRule.php",
     content |-> <<"'doc' => 'required|cnpj',">>] >>

FileIds == 1..Len(Catalog)

\* a file of the directory: its place in the catalog and whether
\* read_text succeeds on it
DirEntries == [id : FileIds, readable : BOOLEAN]

\* the directories tried: up to MaxFiles files of the catalog, listed in
\* the order of the catalog
Directories ==
    UNION { { d \in [1..n -> DirEntries] :
                \A i \in 1..(n - 1) : d[i].id < d[i + 1].id } :
            n \in 1..MaxFiles }

File(entry) == [path |-> Catalog[entry.id].path,
                content |-> Catalog[entry.id].content,
                readable |-> entry.readable]

Files(dir) == [i \in 1..Len(dir) |-> File(dir[i])]

\* the filters argument: None, or a dictionary
FilterChoices == { NoFilters,
                   [kind |-> "dict", skip_patterns |-> <<"etl/">>,
                    include_patterns |-> <<>>],
                   [kind |-> "dict", skip_patterns |-> <<>>,
                    include_patterns |-> <<"db/", "app/">>] }

\* an analyzer whose class takes scan_files, find_cnpj_fields and
\* analyze_project from BaseAnalyzer, with the two abstract methods of
\* ETLAnalyzer
PlainAnalyzer == [cls |-> "BaseAnalyzer", project_type |-> "etl_transformation",
                  extensions |-> EtlExtensions, skips |-> EtlSkipPatterns]

\* PHPAnalyzer('php')
PhpAnalyzer == [cls |-> "PHPAnalyzer", project_type |-> "php",
                extensions |-> PhpExtensions, skips |-> PhpSkipPatterns]

InitProject ==
    /\ analyzer \in {PlainAnalyzer, PhpAnalyzer}
    /\ project \in Directories
    /\ filters \in FilterChoices
    /\ apc = [at |-> "scan", i |-> 1]
    /\ scanned = <<>> /\ warnings = <<>> /\ result = NoResult
    /\ raised = NoError
    /\ ClassifierIdle /\ FactoryIdle /\ PoolIdle /\ RegistryIdle
    /\ SessionIdle

\* what scan_files receives: PHPAnalyzer.analyze_project calls
\* self.scan_files(project_path) without the filters
ScanFilters == IF analyzer.cls = "PHPAnalyzer" THEN NoFilters ELSE filters

\* skip_patterns and include_patterns of scan_files after "if filters:"
ScanSkipPatterns ==
    analyzer.skips \o (IF ScanFilters = NoFilters THEN <<>>
                       ELSE ScanFilters.skip_patterns)
ScanIncludePatterns ==
    IF ScanFilters = NoFilters THEN <<>> ELSE ScanFilters.include_patterns

ScanWorkList == WorkList(analyzer.extensions, Files(project), 1)

\* one turn of the inner loop of BaseAnalyzer.scan_files
ScanFile ==
    /\ apc.at = "scan" /\ apc.i <= Len(ScanWorkList)
    /\ LET f == ScanWorkList[apc.i] IN
         IF AnyPatternIn(f.path, ScanSkipPatterns)
            THEN UNCHANGED <<scanned, warnings>>
         ELSE IF ScanIncludePatterns # <<>>
                  /\ ~ AnyPatternIn(f.path, ScanIncludePatterns)
            THEN UNCHANGED <<scanned, warnings>>
         ELSE IF f.readable
            THEN /\ scanned' = Append(scanned,
                        [file_path |-> f.path, content |-> f.content,
                         extension |-> ExtensionOf(analyzer.extensions,
                                                   f.path, 1)])
                 /\ UNCHANGED warnings
         ELSE /\ warnings' = Append(warnings, f.path)
              /\ UNCHANGED scanned
    /\ apc' = [apc EXCEPT !.i = apc.i + 1]
    /\ UNCHANGED <<session, registry, ftype, fsize, verdict, ptag, manifest, analyzer, raised,
                   project, filters, result, pool>>

\* BaseAnalyzer.analyze_project after scan_files has returned
FinishBase ==
    /\ apc.at = "scan" /\ apc.i > Len(ScanWorkList)
    /\ analyzer.cls = "BaseAnalyzer"
    /\ result' = [kind |-> "result",
                  project_type |-> analyzer.project_type,
                  total_files_scanned |-> Len(scanned),
                  cnpj_fields_found |->
                      FindCnpjFields(analyzer.project_type, scanned, 1),
                  validations |-> FindHits(validation_patterns, scanned, 1),
                  frontend_masks |-> FindHits(mask_patterns, scanned, 1)]
    /\ apc' = [at |-> "done"]
    /\ UNCHANGED <<session, registry, ftype, fsize, verdict, ptag, manifest, analyzer, raised,
                   project, filters, scanned, warnings, pool>>

RECURSIVE PhpCategoryFields(_, _, _)
\* the categorising loop of PHPAnalyzer.analyze_project followed by
\* _analyze_migrations, _analyze_code, _analyze_validations or _analyze_tests
PhpCategoryFields(category, files, i) ==
    IF i > Len(files) THEN <<>>
    ELSE LET p == files[i].file_path
             c == files[i].content
             cat == IF IsMigrationFile(p) THEN "migration"
                    ELSE IF IsTestFile(p) THEN "test"
                    ELSE IF IsValidationFile(p) THEN "validation"
                    ELSE "code"
         IN (IF cat # category THEN <<>>
             ELSE IF cat = "migration" THEN AnalyzeMigrationFile(p, c, 1)
             ELSE IF cat = "validation" THEN AnalyzeValidationFile(p, c, 1)
             ELSE AnalyzeCodeFile(p, c, 1))
            \o PhpCategoryFields(category, files, i + 1)

\* the hand-written texts (accents of the source dropped)
PhpCodeField(field) ==
    HandWrittenCNPJField(field, "php_code", "MEDIUM",
                         "Revisar uso do campo CNPJ", "2-4 horas")
PhpValidationField(field) ==
    HandWrittenCNPJField(field, "php_validation", "HIGH",
                         "Atualizar validacao para CNPJ alfanumerico",
                         "4-8 horas")
PhpTestField(field) ==
    HandWrittenCNPJField(field, "php_test", "MEDIUM",
                         "Atualizar testes para CNPJ alfanumerico",
                         "2-4 horas")

\* the conversion of one field of a category to a CNPJField
PhpConvert(category, field) ==
    IF category = "migration" THEN MigrationToCNPJField(field)
    ELSE IF category = "code" THEN PhpCodeField(field)
    ELSE IF category = "validation" THEN PhpValidationField(field)
    ELSE PhpTestField(field)

RECURSIVE PhpConvertAll(_, _, _)
PhpConvertAll(category, fields, k) ==
    IF k > Len(fields) THEN <<>>
    ELSE <<PhpConvert(category, fields[k])>>
         \o PhpConvertAll(category, fields, k + 1)

\* the order in which analyze_project extends all_fields
PhpCategories == <<"migration", "code", "validation", "test">>

RECURSIVE PhpAllFields(_, _)
\* all_fields of PHPAnalyzer.analyze_project, from category c on
PhpAllFields(files, c) ==
    IF c > Len(PhpCategories) THEN <<>>
    ELSE PhpConvertAll(PhpCategories[c],
                       PhpCategoryFields(PhpCategories[c], files, 1), 1)
         \o PhpAllFields(files, c + 1)

\* what PHPAnalyzer.analyze_project does with all_fields: with none it
\* evaluates ImpactLevel.NONE, which the enumeration does not have
PhpOutcome(all_fields, files_scanned) ==
    IF all_fields = <<>>
    THEN [raised |-> "AttributeError", result |-> NoResult]
    ELSE [raised |-> NoError,
          result |-> [kind |-> "result",
                      project_type |-> "php",
                      cnpj_fields_found |-> all_fields,
                      validations_found |-> <<>>,
                      frontend_masks |-> <<>>,
                      overall_impact |->
                          IF Len(all_fields) > 10 THEN "HIGH"
                          ELSE IF Len(all_fields) > 5 THEN "MEDIUM"
                          ELSE "LOW",
                      files_scanned |-> files_scanned]]

\* PHPAnalyzer.analyze_project after scan_files has returned
FinishPhp ==
    /\ apc.at = "scan" /\ apc.i > Len(ScanWorkList)
    /\ analyzer.cls = "PHPAnalyzer"
    /\ \E out \in {PhpOutcome(PhpAllFields(scanned, 1), Len(scanned))} :
          /\ raised' = out.raised
          /\ result' = out.result
    /\ apc' = [at |-> "done"]
    /\ UNCHANGED <<session, registry, ftype, fsize, verdict, ptag, manifest, analyzer, project,
                   filters, scanned, warnings, pool>>

NextProject == ScanFile \/ FinishBase \/ FinishPhp

SpecProject == InitProject /\ [][NextProject]_vars

-----------------------------------------------------------------------------
(* Claims about project runs *)

BaseDone == apc.at = "done" /\ analyzer.cls = "BaseAnalyzer"
PhpDone == apc.at = "done" /\ analyzer.cls = "PHPAnalyzer"

\* the findings of a finished run that come from line n of file path
FindingsAt(path, n) ==
    { k \in 1..Len(result.cnpj_fields_found) :
        /\ result.cnpj_fields_found[k].file_path = path
        /\ result.cnpj_fields_found[k].line_number = n }

\* the files scan_files tried to read
Attempted == Len(scanned) + Len(warnings)

\* C6: when scan_files meets files it cannot read, analyze_project of
\* BaseAnalyzer finishes without raising, total_files_scanned counts every
\* file it tried to read, and every finding comes from a file it could read.
C6_UnreadableFileIsCounted ==
    BaseDone =>
        /\ raised = NoError
        /\ result.total_files_scanned = Attempted
        /\ \A k \in 1..Len(result.cnpj_fields_found) :
             \E i \in 1..Len(scanned) :
                scanned[i].file_path = result.cnpj_fields_found[k].file_path

SchemaSql == Catalog[1].path

\* C7: the line "cnpj VARCHAR(11)" yields a finding VARCHAR, 11, CRITICAL,
\* INCOMPATIBLE, and the line "cnpj INTEGER" yields a finding INTEGER, no
\* size, HIGH, INCOMPATIBLE with an action naming VARCHAR(18).
C7_BareCnpjColumnYieldsFinding ==
    (BaseDone /\ \E i \in 1..Len(scanned) : scanned[i].file_path = SchemaSql)
        => /\ \E k \in FindingsAt(SchemaSql, 2) :
                LET f == result.cnpj_fields_found[k] IN
                /\ f.field_type = "VARCHAR" /\ f.field_size = 11
                /\ f.impact_level = "CRITICAL" /\ f.status = "INCOMPATIBLE"
           /\ \E k \in FindingsAt(SchemaSql, 4) :
                LET f == result.cnpj_fields_found[k] IN
                /\ f.field_type = "INTEGER" /\ f.field_size = Null
                /\ f.impact_level = "HIGH" /\ f.status = "INCOMPATIBLE"
                /\ Contains(f.action_needed, "VARCHAR(18)")

MigrationPhp == Catalog[4].path

MigrationScanned ==
    /\ PhpDone
    /\ \E i \in 1..Len(scanned) : scanned[i].file_path = MigrationPhp

\* C8: the migration line "$table->string('cnpj', 18);" scanned by
\* PHPAnalyzer yields a finding with field_type VARCHAR, field_size 18,
\* impact LOW and status COMPATIBLE.
C8_LaravelString18IsLow ==
    MigrationScanned =>
        /\ raised = NoError
        /\ FindingsAt(MigrationPhp, 1) # {}
        /\ \A k \in FindingsAt(MigrationPhp, 1) :
             LET f == result.cnpj_fields_found[k] IN
             /\ f.field_name = "cnpj"
             /\ f.field_type = "VARCHAR" /\ f.field_size = 18
             /\ f.impact_level = "LOW" /\ f.status = "COMPATIBLE"

C8_Witness ==
    /\ MigrationScanned
    /\ Catalog[4].content[1] = "$table->string('cnpj', 18);"
    /\ \E k \in FindingsAt(MigrationPhp, 1) :
          result.cnpj_fields_found[k].field_type = "VARCHAR"

\* line n of scanned file i hits a field_names pattern and no name-capture
\* pattern extracts a name from it
HitWithoutName(i, n) ==
    /\ \E k \in 1..Len(field_names) :
          HitsI(field_names[k], scanned[i].content[n])
    /\ FirstFieldName(scanned[i].content[n], 1) = NoName

\* C9: a line that hits a field_names pattern and yields no field name
\* gives no finding and no error, and every finding has a non-empty
\* field_name.
C9_HitWithoutNameIsDropped ==
    BaseDone =>
        /\ raised = NoError
        /\ \A i \in 1..Len(scanned) : \A n \in 1..Len(scanned[i].content) :
             HitWithoutName(i, n)
                => FindingsAt(scanned[i].file_path, n) = {}
        /\ \A k \in 1..Len(result.cnpj_fields_found) :
             result.cnpj_fields_found[k].field_name # ""

C9_Witness ==
    /\ BaseDone
    /\ \E i \in 1..Len(scanned) : \E n \in 1..Len(scanned[i].content) :
          HitWithoutName(i, n)
    /\ Len(result.cnpj_fields_found) > 0

\* a run of analyze_project that returned a result
Returned == apc.at = "done" /\ raised = NoError

\* C14: in every result, the estimated_effort of every finding is the entry
\* of the table of _estimate_effort (LOW 1-2 hours, MEDIUM 4-8 hours, HIGH
\* 1-2 days, CRITICAL 2-5 days) for its impact_level, so that two findings
\* of the same impact_level carry the same effort.
C14_EffortFollowsImpact ==
    Returned =>
        \A k \in 1..Len(result.cnpj_fields_found) :
           result.cnpj_fields_found[k].estimated_effort
              = EstimateEffort(result.cnpj_fields_found[k].impact_level)

\* C15: in every result, impact_level and status of every finding are what
\* _assess_impact returns for the finding's field_type and field_size.
C15_ImpactComesFromClassifier ==
    Returned =>
        \A k \in 1..Len(result.cnpj_fields_found) :
           LET f == result.cnpj_fields_found[k]
               v == AssessImpact(f.field_type, f.field_size)
           IN f.impact_level = v.impact /\ f.status = v.status

\* the place of a file among the scanned files
ScanIndex(path) ==
    CHOOSE i \in 1..Len(scanned) : scanned[i].file_path = path

\* C18: in the findings of a result, the findings of an earlier scanned
\* file stand before those of a later scanned file, and from one finding of
\* a file to the next finding of the same file the line_number strictly
\* increases.
C18_FindingsInScanOrder ==
    Returned =>
        \A k \in 1..(Len(result.cnpj_fields_found) - 1) :
           LET a == result.cnpj_fields_found[k]
               b == result.cnpj_fields_found[k + 1]
           IN /\ ScanIndex(a.file_path) <= ScanIndex(b.file_path)
              /\ a.file_path = b.file_path => a.line_number < b.line_number

\* C20: with a filter configuration given to analyze_project, every file
\* scanned has a path that contains none of its skip_patterns and, when its
\* include_patterns are not empty, at least one of them.
C20_ScannedFilesPassFilters ==
    filters # NoFilters =>
        \A i \in 1..Len(scanned) :
           /\ ~ AnyPatternIn(scanned[i].file_path, filters.skip_patterns)
           /\ filters.include_patterns # <<>>
                 => AnyPatternIn(scanned[i].file_path,
                                 filters.include_patterns)

\* C23: find_cnpj_fields of BaseAnalyzer, which is the field-name pass,
\* gives at most one finding for each line of each scanned file, however
\* many patterns of field_names the line hits.
C23_AtMostOneFindingPerLine ==
    (BaseDone /\ raised = NoError) =>
        \A i \in 1..Len(scanned) : \A n \in 1..Len(scanned[i].content) :
           Cardinality(FindingsAt(scanned[i].file_path, n)) <= 1

\* C27: analyze_project of PHPAnalyzer returns a result with an
\* overall_impact for every project, a project without findings included,
\* and raises nothing.
C27_PhpAlwaysReturnsResult ==
    PhpDone =>
        /\ raised = NoError
        /\ result # NoResult
        /\ result.overall_impact \in {"LOW", "MEDIUM", "HIGH", "CRITICAL"}

-----------------------------------------------------------------------------
(* AnalyzerFactory *)

\* Python: s.startswith(prefix)
StartsWith(s, prefix) ==
    /\ Len(prefix) <= Len(s)
    /\ SubSeq(s, 1, Len(prefix)) = prefix

\* the constructors: PHPAnalyzer keeps its argument as project_path and is
\* always of project type 'php'; UIAnalyzer prefixes its framework with ui_
PHPAnalyzer(project_path) ==
    [cls |-> "PHPAnalyzer", project_type |-> "php", arg |-> project_path]
UIAnalyzer(framework) ==
    [cls |-> "UIAnalyzer", project_type |-> "ui_" \o framework,
     arg |-> framework]
NestAnalyzer == [cls |-> "NestAnalyzer", project_type |-> "nest_bff", arg |-> ""]
ETLAnalyzer ==
    [cls |-> "ETLAnalyzer", project_type |-> "etl_transformation", arg |-> ""]

\* AnalyzerFactory.analyzers: the registered tags and what each constructs
analyzers ==
    [t \in {"php_laravel"} |-> PHPAnalyzer("laravel")]
    @@ [t \in {"php_symfony"} |-> PHPAnalyzer("symfony")]
    @@ [t \in {"php_hyperf"} |-> PHPAnalyzer("hyperf")]
    @@ [t \in {"php_generic"} |-> PHPAnalyzer("php")]
    @@ [t \in {"ui_react"} |-> UIAnalyzer("react")]
    @@ [t \in {"ui_react_native"} |-> UIAnalyzer("react_native")]
    @@ [t \in {"ui_vue"} |-> UIAnalyzer("vue")]
    @@ [t \in {"ui_angular"} |-> UIAnalyzer("angular")]
    @@ [t \in {"ui_generic"} |-> UIAnalyzer("ui")]
    @@ [t \in {"nest_bff", "nest_generic"} |-> NestAnalyzer]
    @@ [t \in {"etl_pentaho", "etl_sql", "etl_python_pandas",
               "etl_python_spark", "etl_python_airflow", "etl_r",
               "etl_scala_java", "etl_generic"} |-> ETLAnalyzer]

\* an analyzer that refuses a tag it has no entry for
CreateAnalyzerStrict(project_type) ==
    IF project_type \in DOMAIN analyzers
    THEN [made |-> analyzers[project_type], error |-> NoError]
    ELSE [made |-> NoAnalyzer, error |-> "CatalogNotFound"]

\* AnalyzerFactory.create_analyzer: the analyzer it returns and the
\* exception it raises
CreateAnalyzer(project_type) ==
    IF project_type \in DOMAIN analyzers
    THEN [made |-> analyzers[project_type], error |-> NoError]
    ELSE IF StartsWith(project_type, "php")
        THEN [made |-> PHPAnalyzer("php"), error |-> NoError]
    ELSE IF StartsWith(project_type, "ui")
        THEN [made |-> UIAnalyzer("ui"), error |-> NoError]
    ELSE IF StartsWith(project_type, "nest")
        THEN [made |-> NestAnalyzer, error |-> NoError]
    ELSE IF StartsWith(project_type, "etl")
        THEN [made |-> ETLAnalyzer, error |-> NoError]
    ELSE [made |-> PHPAnalyzer("php"), error |-> NoError]

\* a manifest file that is not on disk, and one json.load rejects
Absent == [state |-> "absent"]
Invalid == [state |-> "invalid"]

AnyDep(deps, sub) == \E dep \in deps : Contains(dep, sub)
AnyDepLower(deps, sub) == \E dep \in deps : Contains(Lower(dep), sub)
AnyScript(scripts, sub) == \E v \in scripts : Contains(Lower(v), sub)
AnyFile(files, ext) == \E f \in files : EndsWith(f, ext)

\* AnalyzerFactory._is_etl_project
IsEtlProject(m) ==
    \E ext \in {".ktr", ".kjb", ".sql", ".py", ".r", ".scala", ".java"} :
        AnyFile(m.files, ext)

\* AnalyzerFactory._detect_etl_type; m.py is the text of the project's
\* Python file, m.py_opens whether open() succeeds on it
DetectEtlType(m) ==
    LET py == m.py
        spark == Contains(py, "pyspark") \/ Contains(py, "SparkSession")
        airflow == Contains(py, "airflow") \/ Contains(py, "DAG")
        pandas == \/ Contains(py, "pandas") \/ Contains(py, "pd.")
                  \/ Contains(py, "df.")
        has_py == AnyFile(m.files, ".py") /\ m.py_opens
    IN  IF AnyFile(m.files, ".ktr") \/ AnyFile(m.files, ".kjb")
            THEN "etl_pentaho"
        ELSE IF AnyFile(m.files, ".sql") THEN "etl_sql"
        ELSE IF has_py /\ spark THEN "etl_python_spark"
        ELSE IF has_py /\ airflow THEN "etl_python_airflow"
        ELSE IF has_py /\ pandas THEN "etl_python_pandas"
        ELSE IF AnyFile(m.files, ".r") \/ AnyFile(m.files, ".R") THEN "etl_r"
        ELSE IF AnyFile(m.files, ".scala") \/ AnyFile(m.files, ".java")
            THEN "etl_scala_java"
        ELSE "etl_generic"

\* AnalyzerFactory.detect_project_type
DetectProjectType(m) ==
    IF ~ m.exists THEN "unknown"
    ELSE IF m.composer = Invalid THEN "php_generic"
    ELSE IF m.composer # Absent THEN
        (IF "laravel/framework" \in m.composer.deps THEN "php_laravel"
         ELSE IF AnyDepLower(m.composer.deps, "symfony") THEN "php_symfony"
         ELSE IF AnyDep(m.composer.deps, "hyperf") THEN "php_hyperf"
         ELSE "php_generic")
    ELSE IF m.package = Invalid THEN "ui_generic"
    ELSE IF m.package # Absent THEN
        (LET deps == m.package.deps
             scripts == m.package.scripts
         IN  IF AnyDep(deps, "react-native") THEN "ui_react_native"
             ELSE IF AnyDep(deps, "@nestjs") THEN "nest_bff"
             ELSE IF AnyDep(deps, "react") THEN "ui_react"
             ELSE IF AnyDep(deps, "vue") THEN "ui_vue"
             ELSE IF AnyDep(deps, "@angular") THEN "ui_angular"
             ELSE IF AnyScript(scripts, "react-native") THEN "ui_react_native"
             ELSE IF AnyScript(scripts, "nest") THEN "nest_bff"
             ELSE IF AnyScript(scripts, "react") THEN "ui_react"
             ELSE IF AnyScript(scripts, "vue") THEN "ui_vue"
             ELSE IF AnyScript(scripts, "angular") THEN "ui_angular"
             ELSE "ui_generic")
    ELSE IF IsEtlProject(m) THEN DetectEtlType(m)
    ELSE "unknown"

-----------------------------------------------------------------------------
(* Factory runs: one call of create_analyzer or of analyze_project *)

\* most dependencies in a manifest file
MaxDeps == 2

ComposerDeps == {"laravel/framework", "symfony/console", "hyperf/framework",
                 "monolog/monolog"}
PackageDeps == {"react-native", "@nestjs/core", "react", "vue",
                "@angular/core", "lodash"}
PackageScripts == {"nest start", "vue-cli-service serve"}
FileNames == {"job.ktr", "load.sql", "etl.py", "model.R", "Main.java",
              "README.md"}
PyTexts == {"from pyspark.sql import SparkSession", "from airflow import DAG",
            "import pandas as pd", "print(1)"}

UpTo(S, n) == { T \in SUBSET S : Cardinality(T) <= n }

ComposerFiles == {Absent, Invalid}
                 \cup { [state |-> "json", deps |-> d] :
                        d \in UpTo(ComposerDeps, MaxDeps) }
PackageFiles == {Absent, Invalid}
                \cup { [state |-> "json", deps |-> d, scripts |-> sc] :
                       d \in UpTo(PackageDeps, MaxDeps),
                       sc \in UpTo(PackageScripts, 1) }

\* project directories as detect_project_type sees them: a directory with
\* composer.json has no package.json in the directories tried
Manifests ==
    { [exists |-> FALSE, composer |-> Absent, package |-> Absent,
       files |-> {}, py |-> "", py_opens |-> FALSE] }
    \cup { [exists |-> TRUE, composer |-> c, package |-> Absent,
            files |-> {}, py |-> "", py_opens |-> FALSE] :
           c \in ComposerFiles }
    \cup { [exists |-> TRUE, composer |-> Absent, package |-> pk,
            files |-> f, py |-> "", py_opens |-> FALSE] :
           pk \in PackageFiles, f \in UpTo(FileNames, 1) }
    \cup { [exists |-> TRUE, composer |-> Absent, package |-> Absent,
            files |-> f, py |-> t, py_opens |-> o] :
           f \in UpTo(FileNames, MaxDeps), t \in PyTexts, o \in BOOLEAN }

\* tags handed to create_analyzer directly
RequestedTags == DOMAIN analyzers
                 \cup {"unknown", "", "php_cake", "ui_svelte", "nest_micro",
                       "etl_dbt", "golang", "PHP_LARAVEL"}

InitFactory ==
    /\ \/ manifest = NoManifest /\ ptag \in RequestedTags
       \/ manifest \in Manifests /\ ptag = ""
    /\ ObjectsIdle
    /\ ClassifierIdle /\ ProjectIdle /\ PoolIdle /\ RegistryIdle
    /\ SessionIdle

\* a call of AnalyzerFactory.create_analyzer(ptag)
CallCreateAnalyzer ==
    /\ manifest = NoManifest
    /\ analyzer = NoAnalyzer /\ raised = NoError
    /\ analyzer' = CreateAnalyzer(ptag).made
    /\ raised' = CreateAnalyzer(ptag).error
    /\ UNCHANGED <<session, registry, ftype, fsize, verdict, ptag, manifest, project, filters,
                   apc, scanned, warnings, result, pool>>

\* a call of AnalyzerFactory.analyze_project on the directory manifest; what
\* the analyzer's own analyze_project does is chosen here: it returns a
\* dictionary or it raises
CallFactoryAnalyzeProject ==
    /\ manifest # NoManifest
    /\ analyzer = NoAnalyzer /\ raised = NoError
    /\ LET project_type == DetectProjectType(manifest)
           created == CreateAnalyzer(project_type)
       IN  /\ ptag' = project_type
           /\ analyzer' = created.made
           /\ IF created.error # NoError
              THEN raised' = created.error /\ UNCHANGED result
              ELSE \/ /\ result' = [kind |-> "result",
                                    project_type |-> project_type]
                      /\ UNCHANGED raised
                   \/ /\ raised' = "AttributeError"
                      /\ UNCHANGED result
    /\ UNCHANGED <<session, registry, ftype, fsize, verdict, manifest, project, filters, apc,
                   scanned, warnings, pool>>

NextFactory == CallCreateAnalyzer \/ CallFactoryAnalyzeProject

SpecFactory == InitFactory /\ [][NextFactory]_vars

-----------------------------------------------------------------------------
(* Claims about the factory *)

\* create_analyzer has run on a tag that is not registered
UnregisteredRequested ==
    /\ analyzer # NoAnalyzer \/ raised # NoError
    /\ ptag \notin DOMAIN analyzers

Fallback(tag) ==
    IF StartsWith(tag, "ui") THEN UIAnalyzer("ui")
    ELSE IF StartsWith(tag, "nest") THEN NestAnalyzer
    ELSE IF StartsWith(tag, "etl") THEN ETLAnalyzer
    ELSE PHPAnalyzer("php")

-----------------------------------------------------------------------------
(* Driver runs: one call of CNPJAnalyzerModular.analyze_all_projects *)

\* most projects discover_projects returns
MaxProjects == 3
\* largest max_workers
MaxWorkers == 2

\* what the factory's analyze_project does for one project: it returns a
\* dictionary whose fields _determine_overall_impact can count ("ok") or on
\* whose fields it raises KeyError ("ok_impact_error"), or it raises an
\* exception with a message ("raises") or with an empty one ("raises_blank")
Plans == {"ok", "ok_impact_error", "raises", "raises_blank"}

None == [kind |-> "None"]

\* the dictionary AnalyzerFactory.analyze_project returns for project p
AnalysisDict(p, plan) ==
    [kind |-> "analysis", project_name |-> p, has_error |-> FALSE,
     error |-> "", countable |-> plan = "ok"]

\* the dictionary the except clause of analyze_project builds
ErrorDict(p, plan) ==
    [kind |-> "error", project_name |-> p, has_error |-> TRUE,
     error |-> IF plan = "raises_blank" THEN "" ELSE "scan failed",
     countable |-> TRUE]

\* an analyze_project without its except clause
AnalyzeProjectUncaught(p, plan) ==
    IF plan \in {"raises", "raises_blank"}
    THEN [returned |-> None, error |-> "Exception"]
    ELSE [returned |-> AnalysisDict(p, plan), error |-> NoError]

\* CNPJAnalyzerModular.analyze_project: what it returns and what it raises
AnalyzeProject(p, plan) ==
    IF plan \in {"raises", "raises_blank"}
    THEN [returned |-> ErrorDict(p, plan), error |-> NoError]
    ELSE [returned |-> AnalysisDict(p, plan), error |-> NoError]

\* CNPJAnalyzerModular._determine_overall_impact: TRUE when it raises
DetermineOverallImpactRaises(dict) == ~ dict.countable

\* Python: the truth value of what a future holds
TruthyResult(value) == value # None

IdleWorker == [task |-> 0, at |-> "idle", result |-> None]

InitDriver ==
    /\ \E n \in 1..MaxProjects, m \in 1..MaxWorkers :
         \E plan \in [1..n -> Plans] :
            pool = [at |-> "submit", max_workers |-> m, plan |-> plan,
                    queue |-> <<>>,
                    worker |-> [w \in 1..m |-> IdleWorker],
                    future |-> [q \in 1..n |-> [state |-> "new",
                                                value |-> None]],
                    yielded |-> {}, results |-> <<>>, log |-> {},
                    lock |-> 0]
    /\ ClassifierIdle /\ FactoryIdle /\ ProjectIdle /\ ObjectsIdle
    /\ RegistryIdle
    /\ SessionIdle

NumProjects == Len(pool.plan)

DriverUnchanged ==
    UNCHANGED <<session, registry, ftype, fsize, verdict, ptag, manifest, analyzer, raised,
                project, filters, apc, scanned, warnings, result>>

\* executor.submit(analyze_single_project, project) for the next project
Submit ==
    /\ pool.at = "submit"
    /\ \E p \in 1..NumProjects :
         /\ pool.future[p].state = "new"
         /\ \A q \in 1..(p - 1) : pool.future[q].state # "new"
         /\ pool' = [pool EXCEPT
                !.queue = Append(@, p),
                !.future[p].state = "pending",
                !.at = IF p = NumProjects THEN "drain" ELSE "submit"]
    /\ DriverUnchanged

\* a worker thread takes the oldest queued call
WorkerTake(w) ==
    /\ pool.worker[w].at = "idle" /\ pool.queue # <<>>
    /\ pool' = [pool EXCEPT
            !.queue = Tail(@),
            !.future[Head(pool.queue)].state = "running",
            !.worker[w] = [task |-> Head(pool.queue), at |-> "analyze",
                           result |-> None]]
    /\ DriverUnchanged

\* one call of self.console.print or self.logger.error by worker w at a
\* place of the source while it works on project p, and whether w holds
\* the lock at that moment; pool.log is the set of the writes made so far
Write(site, p, w) ==
    [site |-> site, project |-> p, locked |-> pool.lock = w]

\* what analyze_project writes: the detected type, and in its except
\* clause the error
AnalyzeProjectWrites(p, plan, w) ==
    {Write("type_detected", p, w)}
    \cup (IF AnalyzeProject(p, plan).returned.kind = "error"
          THEN {Write("analyze_project_error", p, w)} ELSE {})

\* analyze_single_project up to the return of self.analyze_project; an
\* exception reaching it goes to the outer except
WorkerAnalyze(w) ==
    /\ pool.worker[w].at = "analyze"
    /\ LET p == pool.worker[w].task IN
         pool' = [pool EXCEPT
            !.log = @ \cup AnalyzeProjectWrites(p, pool.plan[p], w),
            !.worker[w].at = "report",
            !.worker[w].result = AnalyzeProject(p, pool.plan[p]).returned]
    /\ DriverUnchanged

\* "with lock:" entered by worker w; _determine_overall_impact has run
\* before it
WorkerLock(w) ==
    /\ pool.worker[w].at = "report" /\ pool.lock = 0
    /\ pool' = [pool EXCEPT !.lock = w, !.worker[w].at = "locked"]
    /\ DriverUnchanged

\* the place of analyze_single_project whose "with lock:" block runs for
\* what analyze_project gave
ReportSite(res) ==
    IF res = None THEN "error"
    ELSE IF res.has_error /\ res.error # "" THEN "error"
    ELSE IF DetermineOverallImpactRaises(res) THEN "impact_error"
    ELSE "impact"

\* the body of the "with lock:" block and its exit; the error branches
\* return after it
WorkerReport(w) ==
    /\ pool.worker[w].at = "locked"
    /\ LET p == pool.worker[w].task
           res == pool.worker[w].result
       IN  IF ReportSite(res) = "error"
           THEN pool' = [pool EXCEPT
                    !.log = @ \cup {Write("error", p, w)},
                    !.lock = 0,
                    !.future[p] = [state |-> "finished", value |-> res],
                    !.worker[w] = IdleWorker]
           ELSE pool' = [pool EXCEPT
                    !.log = @ \cup {Write(ReportSite(res), p, w)},
                    !.lock = 0,
                    !.worker[w].at = "save"]
    /\ DriverUnchanged

\* _save_individual_report, which keeps its exceptions to itself and
\* prints where the report went (or logs that saving failed), then return
WorkerSave(w) ==
    /\ pool.worker[w].at = "save"
    /\ LET p == pool.worker[w].task IN
         pool' = [pool EXCEPT
            !.log = @ \cup {Write("report_saved", p, w)},
            !.future[p] = [state |-> "finished",
                           value |-> pool.worker[w].result],
            !.worker[w] = IdleWorker]
    /\ DriverUnchanged

\* one turn of the loop over as_completed(future_to_project)
Collect ==
    /\ pool.at = "drain"
    /\ \E p \in 1..NumProjects :
         /\ pool.future[p].state = "finished" /\ p \notin pool.yielded
         /\ pool' = [pool EXCEPT
                !.yielded = @ \cup {p},
                !.results = IF TruthyResult(pool.future[p].value)
                            THEN Append(@, pool.future[p].value) ELSE @]
    /\ DriverUnchanged

\* the loop ends, the executor shuts down, analyze_all_projects returns
Return ==
    /\ pool.at = "drain"
    /\ pool.yielded = 1..NumProjects
    /\ \A w \in DOMAIN pool.worker : pool.worker[w].at = "idle"
    /\ pool' = [pool EXCEPT !.at = "returned"]
    /\ DriverUnchanged

NextDriver ==
    \/ Submit
    \/ \E w \in DOMAIN pool.worker : WorkerTake(w)
    \/ \E w \in DOMAIN pool.worker : WorkerAnalyze(w)
    \/ \E w \in DOMAIN pool.worker : WorkerLock(w)
    \/ \E w \in DOMAIN pool.worker : WorkerReport(w)
    \/ \E w \in DOMAIN pool.worker : WorkerSave(w)
    \/ Collect
    \/ Return

SpecDriver == InitDriver /\ [][NextDriver]_vars

-----------------------------------------------------------------------------
(* Claims about the driver *)

Failing(p) == pool.plan[p] \in {"raises", "raises_blank"}

EntriesOf(p) ==
    { k \in 1..Len(pool.results) : pool.results[k].project_name = p }

\* C5: whatever the interleaving of the workers, when analyze_all_projects
\* returns every project has exactly one entry in the results, the entry of
\* a project whose analysis raised is an error entry, and the entry of every
\* other project is the dictionary its own analysis returned.
C5_EveryProjectHasOneEntry ==
    pool.at = "returned" =>
        \A p \in 1..NumProjects :
            /\ Cardinality(EntriesOf(p)) = 1
            /\ \A k \in EntriesOf(p) :
                 IF Failing(p) THEN pool.results[k].kind = "error"
                 ELSE pool.results[k] = AnalysisDict(p, pool.plan[p])

C5_Witness ==
    /\ pool # NoPool /\ pool.at = "returned"
    /\ NumProjects = 3
    /\ Failing(2) /\ ~ Failing(1) /\ ~ Failing(3)
    /\ pool.results[1].project_name = 3

\* C19: every write a worker thread makes to the console or the logger
\* during analyze_all_projects is made while that thread holds the lock.
C19_WorkerWritesHoldLock ==
    pool # NoPool =>
        \A write \in pool.log : write.locked

-----------------------------------------------------------------------------
(* Type extractors: infrastructure/type_extractors *)

\* one branch of the if/elif chain of extract_type_and_size: the pattern
\* searched with re.IGNORECASE, the tag returned, and the group whose
\* digits are returned as size (0: the size is None)
Rule(pat, tag, group) == [pat |-> pat, tag |-> tag, group |-> group]

\* a pattern that is one word
Word(tag, word) == Rule(<<Lit(word)>>, tag, 0)

\* NAME\s*\(\s*(\d+)\s*,\s*(\d+)\s*\)
SizedPair(name) == <<Lit(name), Star("s"), Lit("("), Star("s"),
                     GO, Plus("d"), GC, Star("s"), Lit(","), Star("s"),
                     GO, Plus("d"), GC, Star("s"), Lit(")")>>

\* one branch of the context inference: the words looked for in the
\* lower-cased line and the tag returned
Hint(words, tag) == [words |-> words, tag |-> tag]

NoRule == <<>>

\* what a branch returns for its match
Captured(rule, m) ==
    <<rule.tag, IF rule.group = 0 THEN Null ELSE ParseInt(m.caps[rule.group])>>

RECURSIVE FirstRule(_, _, _)
RECURSIVE RuleOrNext(_, _, _, _)
\* the if/elif chain from branch k on: the first branch whose pattern is
\* found in the line returns
FirstRule(rules, line, k) ==
    IF k > Len(rules) THEN NoRule
    ELSE RuleOrNext(rules, line, k, SearchI(rules[k].pat, line))

RuleOrNext(rules, line, k, m) ==
    IF m.ok THEN Captured(rules[k], m) ELSE FirstRule(rules, line, k + 1)

RECURSIVE ContextTag(_, _, _)
\* the final else of extract_type_and_size
ContextTag(hints, line_lower, k) ==
    IF k > Len(hints) THEN "UNKNOWN"
    ELSE IF \E w \in 1..Len(hints[k].words) :
               Contains(line_lower, hints[k].words[w])
         THEN hints[k].tag
    ELSE ContextTag(hints, line_lower, k + 1)

\* a context inference that takes a line without any of its words for a
\* name
OrContextGuessing(found, hints, line) ==
    IF found # NoRule THEN found
    ELSE IF ContextTag(hints, Lower(line), 1) = "UNKNOWN"
        THEN <<"STRING_FIELD", Null>>
    ELSE <<ContextTag(hints, Lower(line), 1), Null>>

\* the chain, and the context inference when no branch returned
OrContext(found, hints, line) ==
    IF found # NoRule THEN found
    ELSE <<ContextTag(hints, Lower(line), 1), Null>>

\* the branches of SQLExtractor.extract_type_and_size, in their order
SqlRules == <<
    Rule(SizedType("VARCHAR"), "VARCHAR", 1),
    Rule(SizedType("CHAR"), "CHAR", 1),
    Rule(SizedType("INT"), "INT", 1),
    Rule(SizedType("INTEGER"), "INTEGER", 1),
    Rule(SizedType("BIGINT"), "BIGINT", 1),
    Rule(SizedType("SMALLINT"), "SMALLINT", 1),
    Rule(SizedType("TINYINT"), "TINYINT", 1),
    Rule(SizedPair("DECIMAL"), "DECIMAL", 1),
    Rule(SizedPair("NUMERIC"), "NUMERIC", 1),
    Rule(SizedPair("FLOAT"), "FLOAT", 1),
    Rule(SizedPair("DOUBLE"), "DOUBLE", 1),
    Word("VARCHAR", "VARCHAR"), Word("CHAR", "CHAR"), Word("INT", "INT"),
    Word("INTEGER", "INTEGER"), Word("BIGINT", "BIGINT"),
    Word("SMALLINT", "SMALLINT"), Word("TINYINT", "TINYINT"),
    Word("DECIMAL", "DECIMAL"), Word("NUMERIC", "NUMERIC"),
    Word("FLOAT", "FLOAT"), Word("DOUBLE", "DOUBLE"), Word("REAL", "REAL"),
    Word("DATETIME", "DATETIME"), Word("TIMESTAMP", "TIMESTAMP"),
    Word("DATE", "DATE"), Word("TIME", "TIME"), Word("YEAR", "YEAR"),
    Word("TEXT", "TEXT"), Word("LONGTEXT", "LONGTEXT"),
    Word("MEDIUMTEXT", "MEDIUMTEXT"), Word("TINYTEXT", "TINYTEXT"),
    Word("BLOB", "BLOB"), Word("LONGBLOB", "LONGBLOB"),
    Word("MEDIUMBLOB", "MEDIUMBLOB"), Word("TINYBLOB", "TINYBLOB"),
    Word("BOOLEAN", "BOOLEAN"), Word("BOOL", "BOOL"), Word("BIT", "BIT"),
    Word("JSON", "JSON"),
    Rule(<<Lit("ENUM"), Star("s"), Lit("(")>>, "ENUM", 0),
    Rule(<<Lit("SET"), Star("s"), Lit("(")>>, "SET", 0),
    Word("PRIMARY_KEY", "PRIMARY KEY"), Word("FOREIGN_KEY", "FOREIGN KEY"),
    Word("UNIQUE", "UNIQUE"), Word("NOT_NULL", "NOT NULL"),
    Word("DEFAULT", "DEFAULT"), Word("AUTO_INCREMENT", "AUTO_INCREMENT"),
    Word("INDEX", "INDEX"), Word("KEY", "KEY"),
    Word("UNIQUE_KEY", "UNIQUE KEY"), Word("PRIMARY_KEY", "PRIMARY KEY"),
    Word("CREATE_TABLE", "CREATE TABLE"), Word("ALTER_TABLE", "ALTER TABLE"),
    Word("DROP_TABLE", "DROP TABLE"), Word("INSERT", "INSERT INTO"),
    Word("UPDATE", "UPDATE"), Word("DELETE", "DELETE FROM"),
    Word("SELECT", "SELECT"),
    Rule(<<Lit("--"), Star(".")>>, "SQL_COMMENT", 0),
    Rule(<<Lit("/*"), Star("."), Lit("*/")>>, "SQL_COMMENT_BLOCK", 0) >>

\* the context inference of SQLExtractor and, with other tags, of the
\* other extractors
DocumentWords == <<"cnpj", "cpf", "documento">>
SqlHints == <<
    Hint(DocumentWords, "VARCHAR"), Hint(<<"id">>, "ID_FIELD"),
    Hint(<<"date", "time">>, "DATE_FIELD"), Hint(<<"email">>, "EMAIL_FIELD"),
    Hint(<<"phone", "telefone">>, "PHONE_FIELD"),
    Hint(<<"amount", "value", "total">>, "NUMBER_FIELD"),
    Hint(<<"name", "nome">>, "STRING_FIELD") >>

\* SQLExtractor.extract_type_and_size
SQLExtract(line) == OrContext(FirstRule(SqlRules, line, 1), SqlHints, line)

\* \$[a-zA-Z_][a-zA-Z0-9_]*
PhpVar == <<Lit("$"), One("a"), Star("w")>>
\* an assignment to a variable, followed by value
Assign(value) == PhpVar \o <<Star("s"), Lit("="), Star("s")>> \o value
\* a declaration of a property of the visibility
Property(visibility) ==
    <<Lit(visibility), Plus("s")>> \o PhpVar \o <<Star("s"), Lit(";")>>
\* a function of one parameter
FunctionParameter ==
    <<Lit("function"), Plus("s"), One("a"), Star("w"), Star("s"), Lit("("),
      Star("s")>> \o PhpVar \o <<Star("s"), Lit(")")>>
\* the head of a call $table->method('name'
TableCall(method) ==
    <<Lit("$table->" \o method), Star("s"), Lit("("), Star("s"), One("q"),
      Star("nq"), One("q"), Star("s")>>
TableSize == <<Lit(","), Star("s"), GO, Plus("d"), GC, Star("s")>>
\* class\s+[a-zA-Z_][a-zA-Z0-9_]*Suffix
ClassNamed(suffix) ==
    <<Lit("class"), Plus("s"), One("a"), Star("w"), Lit(suffix)>>

\* the branches of PHPExtractor.extract_type_and_size, in their order (an
\* alternation a|b is two branches with one tag)
PhpRules == <<
    Rule(Assign(<<One("q"), Star("nq"), One("q")>>), "PHP_STRING", 0),
    Rule(Assign(<<Plus("d")>>), "PHP_INTEGER", 0),
    Rule(Assign(<<Plus("d"), Lit("."), Plus("d")>>), "PHP_FLOAT", 0),
    Rule(Assign(<<Lit("true")>>), "PHP_BOOLEAN", 0),
    Rule(Assign(<<Lit("false")>>), "PHP_BOOLEAN", 0),
    Rule(Assign(<<Lit("array"), Star("s"), Lit("(")>>), "PHP_ARRAY", 0),
    Rule(Assign(<<Lit("[")>>), "PHP_ARRAY", 0),
    Rule(Assign(<<Lit("new"), Plus("s")>>), "PHP_OBJECT", 0),
    Rule(Property("private"), "PHP_PRIVATE_PROPERTY", 0),
    Rule(Property("public"), "PHP_PUBLIC_PROPERTY", 0),
    Rule(Property("protected"), "PHP_PROTECTED_PROPERTY", 0),
    Rule(FunctionParameter, "PHP_FUNCTION_PARAMETER", 0),
    Rule(<<Lit("public"), Plus("s")>> \o FunctionParameter,
         "PHP_PUBLIC_FUNCTION_PARAMETER", 0),
    Rule(<<Lit("private"), Plus("s")>> \o FunctionParameter,
         "PHP_PRIVATE_FUNCTION_PARAMETER", 0),
    Rule(<<Lit("protected"), Plus("s")>> \o FunctionParameter,
         "PHP_PROTECTED_FUNCTION_PARAMETER", 0),
    Word("DOCTRINE_COLUMN", "@ORM\\Column"),
    Word("DOCTRINE_ENTITY", "@ORM\\Entity"),
    Word("DOCTRINE_TABLE", "@ORM\\Table"),
    Word("DOCTRINE_ID", "@ORM\\Id"),
    Word("DOCTRINE_GENERATED_VALUE", "@ORM\\GeneratedValue"),
    Word("DOCTRINE_MANY_TO_ONE", "@ORM\\ManyToOne"),
    Word("DOCTRINE_ONE_TO_MANY", "@ORM\\OneToMany"),
    Word("DOCTRINE_ONE_TO_ONE", "@ORM\\OneToOne"),
    Word("DOCTRINE_MANY_TO_MANY", "@ORM\\ManyToMany"),
    Word("SYMFONY_NOT_BLANK", "@Assert\\NotBlank"),
    Word("SYMFONY_LENGTH", "@Assert\\Length"),
    Word("SYMFONY_REGEX", "@Assert\\Regex"),
    Word("SYMFONY_EMAIL", "@Assert\\Email"),
    Word("SYMFONY_NOT_NULL", "@Assert\\NotNull"),
    Word("SYMFONY_TYPE", "@Assert\\Type"),
    Word("LARAVEL_REQUIRED", "required"), Word("LARAVEL_STRING", "string"),
    Word("LARAVEL_INTEGER", "integer"), Word("LARAVEL_NUMERIC", "numeric"),
    Word("LARAVEL_EMAIL", "email"), Word("LARAVEL_DATE", "date"),
    Word("LARAVEL_BOOLEAN", "boolean"), Word("LARAVEL_ARRAY", "array"),
    Word("LARAVEL_MIN", "min:"), Word("LARAVEL_MAX", "max:"),
    Word("LARAVEL_SIZE", "size:"), Word("LARAVEL_REGEX", "regex:"),
    Rule(TableCall("string") \o TableSize \o <<Lit(")")>>,
         "LARAVEL_MIGRATION_STRING", 1),
    Rule(TableCall("char") \o TableSize \o <<Lit(")")>>,
         "LARAVEL_MIGRATION_CHAR", 1),
    Rule(TableCall("integer") \o <<Lit(")")>>,
         "LARAVEL_MIGRATION_INTEGER", 0),
    Rule(TableCall("bigInteger") \o <<Lit(")")>>,
         "LARAVEL_MIGRATION_BIGINTEGER", 0),
    Rule(TableCall("text") \o <<Lit(")")>>, "LARAVEL_MIGRATION_TEXT", 0),
    Rule(TableCall("boolean") \o <<Lit(")")>>,
         "LARAVEL_MIGRATION_BOOLEAN", 0),
    Rule(TableCall("date") \o <<Lit(")")>>, "LARAVEL_MIGRATION_DATE", 0),
    Rule(TableCall("datetime") \o <<Lit(")")>>,
         "LARAVEL_MIGRATION_DATETIME", 0),
    Rule(TableCall("timestamp") \o <<Lit(")")>>,
         "LARAVEL_MIGRATION_TIMESTAMP", 0),
    Rule(TableCall("decimal") \o TableSize \o TableSize \o <<Lit(")")>>,
         "LARAVEL_MIGRATION_DECIMAL", 1),
    Rule(ClassNamed("Controller"), "PHP_CONTROLLER_CLASS", 0),
    Rule(ClassNamed("Service"), "PHP_SERVICE_CLASS", 0),
    Rule(ClassNamed("Repository"), "PHP_REPOSITORY_CLASS", 0),
    Rule(ClassNamed("Model"), "PHP_MODEL_CLASS", 0),
    Rule(ClassNamed("Entity"), "PHP_ENTITY_CLASS", 0),
    Rule(<<Lit("namespace"), Plus("s")>>, "PHP_NAMESPACE", 0),
    Rule(<<Lit("use"), Plus("s")>>, "PHP_USE_STATEMENT", 0),
    Rule(<<Lit("//"), Star(".")>>, "PHP_COMMENT", 0),
    Rule(<<Lit("/*"), Star("."), Lit("*/")>>, "PHP_COMMENT_BLOCK", 0) >>

PhpHints == <<
    Hint(DocumentWords, "PHP_STRING"), Hint(<<"id">>, "PHP_ID_FIELD"),
    Hint(<<"date", "time">>, "PHP_DATE_FIELD"),
    Hint(<<"email">>, "PHP_EMAIL_FIELD"),
    Hint(<<"phone", "telefone">>, "PHP_PHONE_FIELD"),
    Hint(<<"amount", "value", "total">>, "PHP_NUMBER_FIELD"),
    Hint(<<"name", "nome">>, "PHP_STRING_FIELD") >>

\* PHPExtractor.extract_type_and_size
PHPExtract(line) == OrContext(FirstRule(PhpRules, line, 1), PhpHints, line)

\* :\s*name\s*[\[\]]?
TypeAnnotation(name) ==
    <<Lit(":"), Star("s"), Lit(name), Star("s"), Opt("br")>>

\* the branches of TypeScriptExtractor.extract_type_and_size, in their
\* order
TsRules == <<
    Rule(TypeAnnotation("string"), "STRING", 0),
    Rule(TypeAnnotation("number"), "NUMBER", 0),
    Rule(TypeAnnotation("boolean"), "BOOLEAN", 0),
    Rule(TypeAnnotation("any"), "ANY", 0),
    Rule(TypeAnnotation("object"), "OBJECT", 0),
    Rule(TypeAnnotation("array"), "ARRAY", 0),
    Rule(<<Lit(":"), Star("s"), Lit("["), Star("."), Lit("]")>>, "ARRAY", 0),
    Rule(<<Lit(":"), Star("s"), Lit("Promise<")>>, "PROMISE", 0),
    Rule(<<Lit(":"), Star("s"), Lit("Observable<")>>, "OBSERVABLE", 0),
    Word("STRING", "@IsString"), Word("NUMBER", "@IsNumber"),
    Word("BOOLEAN", "@IsBoolean"), Word("ARRAY", "@IsArray"),
    Word("OBJECT", "@IsObject"),
    Rule(SizedPair("@Length"), "STRING", 2),
    Rule(SizedType("@MaxLength"), "STRING", 1),
    Rule(SizedType("@MinLength"), "STRING", 1),
    Rule(<<Lit("@Matches"), Star("s"), Lit("("), Star("s"), One("q"), GO,
           Plus("nq"), GC, One("q"), Star("s"), Lit(")")>>, "STRING", 0),
    Word("CNPJ_VALIDATION", "@IsCNPJ"),
    Word("DOCUMENT_VALIDATION", "@IsDocument"),
    Word("REQUIRED_FIELD", "@IsNotEmpty"),
    Word("OPTIONAL_FIELD", "@IsOptional"),
    Word("TRANSFORMED_FIELD", "@Transform"),
    Rule(<<Lit("async"), Plus("s"), Star("."), Lit("("), Star("."), Lit(")"),
           Star("s"), Lit(":"), Star("s"), Lit("Promise")>>,
         "ASYNC_METHOD", 0),
    Rule(<<Lit("async"), Plus("s"), Star("."), Lit("("), Star("."), Lit(")"),
           Star("s"), Lit(":"), Star("s"), Lit("Observable")>>,
         "ASYNC_METHOD", 0),
    Rule(<<Lit("export"), Plus("s"), Lit("class"), Plus("s")>>,
         "CLASS_DEFINITION", 0),
    Rule(<<Lit("export"), Plus("s"), Lit("interface"), Plus("s")>>,
         "INTERFACE_DEFINITION", 0),
    Rule(<<Lit("export"), Plus("s"), Lit("type"), Plus("s")>>,
         "TYPE_DEFINITION", 0),
    Rule(<<Lit("export"), Plus("s"), Lit("enum"), Plus("s")>>,
         "ENUM_DEFINITION", 0),
    Rule(<<Lit("constructor"), Star("s"), Lit("(")>>, "CONSTRUCTOR", 0),
    Word("SERVICE_CLASS", "@Injectable"),
    Word("CONTROLLER_CLASS", "@Controller"),
    Word("ENTITY_CLASS", "@Entity"), Word("DATABASE_COLUMN", "@Column"),
    Word("PRIMARY_KEY", "@PrimaryGeneratedColumn"),
    Word("RELATIONSHIP", "@ManyToOne"), Word("RELATIONSHIP", "@OneToMany"),
    Word("RELATIONSHIP", "@OneToOne"), Word("RELATIONSHIP", "@ManyToMany") >>

TsHints == <<
    Hint(DocumentWords, "STRING"), Hint(<<"id">>, "ID_FIELD"),
    Hint(<<"date", "time">>, "DATE_FIELD"), Hint(<<"email">>, "EMAIL_FIELD"),
    Hint(<<"phone", "telefone">>, "PHONE_FIELD") >>

\* TypeScriptExtractor.extract_type_and_size
TSExtract(line) == OrContext(FirstRule(TsRules, line, 1), TsHints, line)

\* <field.*name=["\']([^"\']*cnpj[^"\']*)["\']
PentahoCnpjField ==
    <<Lit("<field"), Star("."), Lit("name="), One("q"), GO, Star("nq"),
      Lit("cnpj"), Star("nq"), GC, One("q")>>
\* <field.*type=["\']([^"\']*)["\']
PentahoTypedField ==
    <<Lit("<field"), Star("."), Lit("type="), One("q"), GO, Star("nq"), GC,
      One("q")>>

\* the tag for the lower-cased type attribute of a Pentaho field
PentahoFieldType(field_type) ==
    ContextTag(<<Hint(<<"string", "varchar">>, "STRING"),
                 Hint(<<"number", "integer", "int">>, "NUMBER"),
                 Hint(<<"date", "timestamp">>, "DATE"),
                 Hint(<<"boolean", "bool">>, "BOOLEAN")>>, field_type, 1)

\* Word.*Word
Apart(first, second) == <<Lit(first), Star("."), Lit(second)>>

\* the branches of ETLExtractor.extract_type_and_size after the two for
\* Pentaho fields, in their order
EtlRules == <<
    Rule(SizedType("VARCHAR"), "VARCHAR", 1),
    Rule(SizedType("CHAR"), "CHAR", 1),
    Rule(SizedType("INT"), "INTEGER", 1),
    Rule(SizedType("BIGINT"), "BIGINT", 1),
    Rule(SizedPair("DECIMAL"), "DECIMAL", 1),
    Word("DATETIME", "DATETIME"), Word("TIMESTAMP", "TIMESTAMP"),
    Word("DATE", "DATE"), Word("TEXT", "TEXT"),
    Word("LONGTEXT", "LONGTEXT"), Word("BLOB", "BLOB"),
    Word("LONGBLOB", "LONGBLOB"),
    Rule(Apart("String", "field"), "PENTAHO_STRING", 0),
    Rule(Apart("Number", "field"), "PENTAHO_NUMBER", 0),
    Rule(Apart("Date", "field"), "PENTAHO_DATE", 0),
    Rule(Apart("Boolean", "field"), "PENTAHO_BOOLEAN", 0),
    Rule(Apart("String", "Operations"), "STRING_TRANSFORMATION", 0),
    Word("CALCULATOR_STEP", "Calculator"),
    Rule(Apart("Filter", "Rows"), "FILTER_STEP", 0),
    Rule(Apart("Add", "Constants"), "ADD_CONSTANTS_STEP", 0),
    Rule(Apart("Select", "Values"), "SELECT_VALUES_STEP", 0),
    Rule(Apart("Get", "Fields"), "GET_FIELDS_STEP", 0),
    Rule(Apart("Set", "Variable"), "SET_VARIABLE_STEP", 0),
    Rule(Apart("Get", "Variable"), "GET_VARIABLE_STEP", 0),
    Rule(Apart("Data", "Validator"), "DATA_VALIDATOR", 0),
    Rule(Apart("Null", "Check"), "NULL_CHECK", 0),
    Rule(Apart("Length", "Check"), "LENGTH_CHECK", 0),
    Rule(Apart("Pattern", "Match"), "PATTERN_MATCH", 0),
    Rule(Apart("Table", "Input"), "TABLE_INPUT", 0),
    Rule(Apart("Table", "Output"), "TABLE_OUTPUT", 0),
    Rule(Apart("CSV", "Input"), "CSV_INPUT", 0),
    Rule(Apart("CSV", "Output"), "CSV_OUTPUT", 0),
    Rule(Apart("Excel", "Input"), "EXCEL_INPUT", 0),
    Rule(Apart("Excel", "Output"), "EXCEL_OUTPUT", 0),
    Rule(Apart("JSON", "Input"), "JSON_INPUT", 0),
    Rule(Apart("JSON", "Output"), "JSON_OUTPUT", 0),
    Rule(<<Lit("${"), Star("."), Lit("}")>>, "VARIABLE", 0),
    Word("PARAMETER", "Parameter") >>

EtlHints == <<
    Hint(DocumentWords, "STRING"), Hint(<<"id">>, "ID_FIELD"),
    Hint(<<"date", "time">>, "DATE_FIELD"), Hint(<<"email">>, "EMAIL_FIELD"),
    Hint(<<"phone", "telefone">>, "PHONE_FIELD"),
    Hint(<<"amount", "value", "total">>, "NUMBER_FIELD"),
    Hint(<<"name", "nome">>, "STRING_FIELD") >>

\* the second branch of ETLExtractor.extract_type_and_size and what
\* follows it
EtlTypedOrRules(line, typed) ==
    IF typed.ok THEN <<PentahoFieldType(Lower(typed.caps[1])), Null>>
    ELSE OrContext(FirstRule(EtlRules, line, 1), EtlHints, line)

\* ETLExtractor.extract_type_and_size
ETLExtract(line) ==
    IF SearchI(PentahoCnpjField, line).ok THEN <<"PENTAHO_FIELD", Null>>
    ELSE EtlTypedOrRules(line, SearchI(PentahoTypedField, line))

\* TypeExtractorFactory._extractors, in the order of the dictionary
extractors == <<
    <<".ts", "TypeScriptExtractor">>, <<".tsx", "TypeScriptExtractor">>,
    <<".php", "PHPExtractor">>, <<".sql", "SQLExtractor">>,
    <<".ktr", "ETLExtractor">>, <<".kjb", "ETLExtractor">>,
    <<".xml", "ETLExtractor">>, <<".xsd", "ETLExtractor">>,
    <<".csv", "ETLExtractor">>, <<".txt", "ETLExtractor">> >>

\* TypeExtractorFactory._get_fallback_extractor
GetFallbackExtractor(file_path) == "SQLExtractor"

\* a factory that falls back to the extractor of text files
GetExtractorFallbackEtl(file_path) ==
    IF \E k \in 1..Len(extractors) : EndsWith(Lower(file_path), extractors[k][1])
    THEN extractors[CHOOSE k \in 1..Len(extractors) :
                      /\ EndsWith(Lower(file_path), extractors[k][1])
                      /\ \A j \in 1..(k - 1) :
                           ~ EndsWith(Lower(file_path), extractors[j][1])][2]
    ELSE "ETLExtractor"

\* get_extractor on a factory whose _extractors is dict: the class of the
\* first key, in the order of the dictionary, the lower-cased path ends with
GetExtractorFrom(dict, file_path) ==
    IF \E k \in 1..Len(dict) : EndsWith(Lower(file_path), dict[k][1])
    THEN dict[CHOOSE k \in 1..Len(dict) :
                 /\ EndsWith(Lower(file_path), dict[k][1])
                 /\ \A j \in 1..(k - 1) :
                      ~ EndsWith(Lower(file_path), dict[j][1])][2]
    ELSE GetFallbackExtractor(file_path)

\* TypeExtractorFactory.get_extractor on a factory just constructed
GetExtractor(file_path) == GetExtractorFrom(extractors, file_path)

\* TypeExtractorFactory.register_extractor, self._extractors[extension] =
\* extractor_class: a key the dictionary holds keeps its place and takes
\* the class, a new key goes to the end
RegisterExtractor(dict, extension, extractor_class) ==
    IF \E k \in 1..Len(dict) : dict[k][1] = extension
    THEN [k \in 1..Len(dict) |->
            IF dict[k][1] = extension THEN <<extension, extractor_class>>
            ELSE dict[k]]
    ELSE Append(dict, <<extension, extractor_class>>)

-----------------------------------------------------------------------------
(* Extractor runs: one call of an extractor on a line, or of the factory
   on a file path *)

\* lines made of the keyword of one branch of SQLExtractor, alone and with
\* a size, and of one word of each branch of its context inference
SqlKeywordLines == {
    "CHAR", "INT", "INT(11)", "INTEGER", "INTEGER(11)", "BIGINT",
    "BIGINT(20)", "SMALLINT", "SMALLINT(5)", "TINYINT", "TINYINT(1)",
    "DECIMAL", "NUMERIC", "NUMERIC(10,2)", "FLOAT", "FLOAT(7,4)", "DOUBLE",
    "DOUBLE(7,4)", "REAL", "DATETIME", "TIMESTAMP", "TIME", "YEAR",
    "LONGTEXT", "MEDIUMTEXT", "TINYTEXT", "LONGBLOB", "MEDIUMBLOB",
    "TINYBLOB", "BOOL", "BIT", "SET(", "FOREIGN KEY", "UNIQUE", "NOT NULL",
    "DEFAULT", "AUTO_INCREMENT", "INDEX", "KEY", "UNIQUE KEY", "ALTER TABLE",
    "DROP TABLE", "INSERT INTO", "UPDATE", "DELETE FROM", "SELECT", "id",
    "date", "time", "email", "phone", "amount" }

\* the lines handed to extract_type_and_size
ExtractorLines == {
    "", "   ", "xyz", "cnpj", "CNPJ", "idade", "x = 1", "nome",
    "nr_cnpj VARCHAR(14)", "cpf_cnpj CHAR ( 18 ),", "nr BIGINT(20)",
    "total DECIMAL(10, 2)", "update_text TEXT", "obs TEXT", "criado DATE",
    "-- note", "valor constraint", "nr_cnpj VARCHAR",
    "CREATE TABLE empresa (", "PRIMARY KEY (cod)", "/* x */", "flag BOOLEAN",
    "doc JSON", "status ENUM('a')", "foto BLOB", "obs TEXT NOT NULL",
    "obs TEXT, criado DATE", "$cnpj = '12';", "$n = 12;", "$v = 1.5;",
    "$ok = true;", "private $cnpj;", "public function setCnpj($cnpj)",
    "@ORM\\Column(length=14)", "'cnpj' => 'required|string'",
    "$table->string('cnpj', 14)", "class EmpresaController",
    "use App\\Models;", "// todo", "$a = [1]", "$o = new Foo()",
    "cnpj: string;", "total: number[]", "@IsString()", "@Length(14, 18)",
    "@MaxLength(14)", "@Matches('x')", "async find(): Promise<X>",
    "export class EmpresaDto {", "@Column()", "@OneToMany()",
    "ids: [number]", "<field name=\"nr_cnpj\" type=\"String\"/>",
    "<field type='Integer'/>", "<field type='Binary'/>", "String field",
    "Table Input", "${VAR}", "Parameter", "Calculator" }
    \cup SqlKeywordLines

\* the paths handed to get_extractor
ExtractorPaths == {
    "src/empresa.dto.ts", "web/Form.TSX", "app/Models/Empresa.php",
    "db/schema.sql", "etl/load.ktr", "etl/job.kjb", "etl/meta.xml",
    "etl/meta.xsd", "data/in.csv", "notes.txt", "README.md", "Makefile",
    "etl/clientes.py", "db/schema.sql.bak", "dir.ts/readme", "web/app.js" }

\* what extract_type_and_size of the class returned
Extracted(by, pair) == [by |-> by, type |-> pair[1], size |-> pair[2]]

InitExtract ==
    /\ ftype \in ExtractorLines \cup ExtractorPaths
    /\ fsize = Null /\ verdict = NoVerdict
    /\ FactoryIdle /\ ObjectsIdle /\ ProjectIdle /\ PoolIdle /\ RegistryIdle
    /\ SessionIdle

ExtractUnchanged ==
    UNCHANGED <<session, registry, ftype, fsize, ptag, manifest, analyzer, raised, project,
                filters, apc, scanned, warnings, result, pool>>

\* SQLExtractor().extract_type_and_size(ftype)
CallSQLExtractor ==
    /\ ftype \in ExtractorLines /\ verdict = NoVerdict
    /\ verdict' = Extracted("SQLExtractor", SQLExtract(ftype))
    /\ ExtractUnchanged

\* PHPExtractor().extract_type_and_size(ftype)
CallPHPExtractor ==
    /\ ftype \in ExtractorLines /\ verdict = NoVerdict
    /\ verdict' = Extracted("PHPExtractor", PHPExtract(ftype))
    /\ ExtractUnchanged

\* TypeScriptExtractor().extract_type_and_size(ftype)
CallTypeScriptExtractor ==
    /\ ftype \in ExtractorLines /\ verdict = NoVerdict
    /\ verdict' = Extracted("TypeScriptExtractor", TSExtract(ftype))
    /\ ExtractUnchanged

\* ETLExtractor().extract_type_and_size(ftype)
CallETLExtractor ==
    /\ ftype \in ExtractorLines /\ verdict = NoVerdict
    /\ verdict' = Extracted("ETLExtractor", ETLExtract(ftype))
    /\ ExtractUnchanged

\* TypeExtractorFactory().get_extractor(ftype)
CallGetExtractor ==
    /\ ftype \in ExtractorPaths /\ verdict = NoVerdict
    /\ verdict' = [by |-> "TypeExtractorFactory", cls |-> GetExtractor(ftype)]
    /\ ExtractUnchanged

NextExtract ==
    \/ CallSQLExtractor \/ CallPHPExtractor \/ CallTypeScriptExtractor
    \/ CallETLExtractor \/ CallGetExtractor

SpecExtract == InitExtract /\ [][NextExtract]_vars

-----------------------------------------------------------------------------
(* Claims about the extractors *)

ExtractorNames ==
    {"SQLExtractor", "PHPExtractor", "TypeScriptExtractor", "ETLExtractor"}

\* every pattern the extractor searches for
RulesOf(by) ==
    CASE by = "SQLExtractor" -> SqlRules
      [] by = "PHPExtractor" -> PhpRules
      [] by = "TypeScriptExtractor" -> TsRules
      [] by = "ETLExtractor" ->
           <<Rule(PentahoCnpjField, "PENTAHO_FIELD", 0),
             Rule(PentahoTypedField, "", 0)>> \o EtlRules

\* the words of the extractor's context inference
HintsOf(by) ==
    CASE by = "SQLExtractor" -> SqlHints
      [] by = "PHPExtractor" -> PhpHints
      [] by = "TypeScriptExtractor" -> TsHints
      [] by = "ETLExtractor" -> EtlHints

\* the rules of the extractor that match the line
MatchingRules(by, line) ==
    { k \in 1..Len(RulesOf(by)) : SearchI(RulesOf(by)[k].pat, line).ok }

NoDomainKeyword(by, line) ==
    \A k \in 1..Len(HintsOf(by)) : \A w \in 1..Len(HintsOf(by)[k].words) :
       ~ Contains(Lower(line), HintsOf(by)[k].words[w])

SqlFamily(k) ==
    IF k <= 2 THEN 1 ELSE IF k <= 11 THEN 2 ELSE IF k <= 13 THEN 3
    ELSE IF k <= 23 THEN 0 ELSE IF k <= 28 THEN 5 ELSE IF k <= 32 THEN 4
    ELSE IF k <= 36 THEN 6 ELSE IF k <= 39 THEN 7 ELSE IF k <= 42 THEN 8
    ELSE IF k <= 52 THEN 9 ELSE IF k <= 59 THEN 10 ELSE 11

\* the rules that match the line and belong to the first family, in the
\* documented order, that has a matching rule
FirstFamilyRules(line) ==
    { k \in MatchingRules("SQLExtractor", line) :
        \A j \in MatchingRules("SQLExtractor", line) :
           SqlFamily(k) <= SqlFamily(j) }

\* C12: for a line that matches rules of the families of the documented
\* order, the SQL extractor returns the tag of a matching rule of the family
\* that comes first in that order; for a line that matches no rule it
\* returns the tag of the context inference.
C12_FirstDocumentedFamilyWins ==
    verdict.by = "SQLExtractor" =>
        IF MatchingRules("SQLExtractor", ftype) = {}
        THEN verdict.type = ContextTag(SqlHints, Lower(ftype), 1)
        ELSE (\A k \in MatchingRules("SQLExtractor", ftype) :
                 SqlFamily(k) # 0)
                => verdict.type \in { SqlRules[k].tag :
                                        k \in FirstFamilyRules(ftype) }

RECURSIVE LastIndexOf(_, _, _)
\* the last place of character c in s at or before i, 0 when there is none
LastIndexOf(s, c, i) ==
    IF i = 0 THEN 0 ELSE IF Ch(s, i) = c THEN i ELSE LastIndexOf(s, c, i - 1)

\* the extension of the file a path names: what follows the last dot of
\* its last component, with the dot, in lower case
PathExtension(path) ==
    LET dot == LastIndexOf(path, ".", Len(path))
        slash == LastIndexOf(path, "/", Len(path))
    IN IF dot > slash THEN Lower(SubSeq(path, dot, Len(path))) ELSE ""

\* C13: get_extractor returns the extractor registered for the extension
\* of the file path, and the SQL extractor for a path whose extension is
\* not registered.
C13_ExtractorByExtension ==
    verdict.by = "TypeExtractorFactory" =>
        IF \E k \in 1..Len(extractors) : extractors[k][1] = PathExtension(ftype)
        THEN \E k \in 1..Len(extractors) :
                /\ extractors[k][1] = PathExtension(ftype)
                /\ verdict.cls = extractors[k][2]
        ELSE verdict.cls = "SQLExtractor"

C13_Witness ==
    /\ verdict.by = "TypeExtractorFactory" /\ ftype = "etl/clientes.py"
    /\ PathExtension(ftype) = ".py"
    /\ verdict.cls = "SQLExtractor"

\* the type tags in the return statements of
\* SQLExtractor.extract_type_and_size
SqlTags ==
    {SqlRules[k].tag : k \in 1..Len(SqlRules)}
       \cup {SqlHints[k].tag : k \in 1..Len(SqlHints)} \cup {"UNKNOWN"}

\* the lines for which SQLExtractor returns the tag
LinesReturning(tag) == {line \in ExtractorLines : SQLExtract(line)[1] = tag}

\* C29: every type tag in a return statement of
\* SQLExtractor.extract_type_and_size is returned for some line: no branch
\* is shadowed by the branches before it.
C29_EverySqlTagIsReturned ==
    verdict # NoVerdict => \A tag \in SqlTags : LinesReturning(tag) # {}

-----------------------------------------------------------------------------
(* Registry runs: calls of register_extractor on one TypeExtractorFactory,
   then one call of get_extractor *)

MaxRegistered == 2

\* the extensions and classes handed to register_extractor
RegisteredExtensions == {".d.ts", ".blade.php", ".py", ".sql"}
RegisteredClasses == {"SQLExtractor", "PHPExtractor", "ETLExtractor"}

\* the paths handed to get_extractor
RegistryPaths == {
    "types/api.d.ts", "views/home.blade.php", "etl/clientes.py",
    "db/schema.sql", "src/empresa.dto.ts", "web/Form.TSX", "Makefile",
    "app/Models/Empresa.php" }

\* TypeExtractorFactory(): registry.extractors is self._extractors and
\* registry.calls the calls of register_extractor made so far
InitRegistry ==
    /\ registry = [extractors |-> extractors, calls |-> <<>>]
    /\ ftype \in RegistryPaths
    /\ fsize = Null /\ verdict = NoVerdict
    /\ FactoryIdle /\ ObjectsIdle /\ ProjectIdle /\ PoolIdle
    /\ SessionIdle

RegistryUnchanged ==
    UNCHANGED <<session, ftype, fsize, ptag, manifest, analyzer, raised, project,
                filters, apc, scanned, warnings, result, pool>>

\* factory.register_extractor(extension, extractor_class)
CallRegisterExtractor(extension, extractor_class) ==
    /\ verdict = NoVerdict
    /\ Len(registry.calls) < MaxRegistered
    /\ registry' =
          [extractors |-> RegisterExtractor(registry.extractors, extension,
                                            extractor_class),
           calls |-> Append(registry.calls, <<extension, extractor_class>>)]
    /\ UNCHANGED verdict
    /\ RegistryUnchanged

\* factory.get_extractor(ftype)
CallGetRegisteredExtractor ==
    /\ verdict = NoVerdict
    /\ verdict' = [by |-> "TypeExtractorFactory",
                   cls |-> GetExtractorFrom(registry.extractors, ftype)]
    /\ UNCHANGED registry
    /\ RegistryUnchanged

NextRegistry ==
    \/ \E extension \in RegisteredExtensions :
          \E extractor_class \in RegisteredClasses :
             CallRegisterExtractor(extension, extractor_class)
    \/ CallGetRegisteredExtractor

SpecRegistry == InitRegistry /\ [][NextRegistry]_vars

\* C28: after register_extractor(ext, cls), get_extractor returns cls for
\* every path whose lower-cased form ends with ext, whatever was
\* registered before.
C28_RegisteredExtractorIsReturned ==
    (verdict # NoVerdict /\ registry # NoRegistry /\ registry.calls # <<>>) =>
        LET last == registry.calls[Len(registry.calls)]
        IN EndsWith(Lower(ftype), last[1]) => verdict.cls = last[2]

-----------------------------------------------------------------------------
(* NestAnalyzer and ETLAnalyzer: the patterns searched in the whole content
   of a file *)

RECURSIVE JoinLines(_)
\* the content of a file whose content.split('\n') is lines
JoinLines(lines) ==
    IF Len(lines) = 0 THEN ""
    ELSE IF Len(lines) = 1 THEN lines[1]
    ELSE lines[1] \o "\n" \o JoinLines(Tail(lines))

RECURSIVE CountChar(_, _, _)
\* Python: s[:n].count(c)
CountChar(s, c, n) ==
    IF n = 0 THEN 0
    ELSE CountChar(s, c, n - 1) + (IF Ch(s, n) = c THEN 1 ELSE 0)

RECURSIVE FindIter(_, _, _, _)
RECURSIVE MatchThenRest(_, _, _, _)
\* re.finditer(pat, s): the matches from position i on, none overlapping
FindIter(pat, s, ci, i) == MatchThenRest(pat, s, ci, SearchFrom(pat, s, ci, i))

MatchThenRest(pat, s, ci, m) ==
    IF ~ m.ok THEN <<>>
    ELSE <<m>> \o FindIter(pat, s, ci,
                           IF m.end > m.start THEN m.end ELSE m.end + 1)

\* export\s+keyword\s+([A-Z][a-zA-Z]*Suffix)
Exported(keyword, suffix) ==
    <<Lit("export"), Plus("s"), Lit(keyword), Plus("s"), GO, One("U"),
      Star("l"), Lit(suffix), GC>>

dto_patterns == <<Exported("class", "Dto"), Exported("interface", "Dto"),
                  Exported("class", "Request"), Exported("class", "Response")>>

\* (\w+)\s*:\s*string\s*;.*word
StringProperty(word) ==
    <<GO, Plus("w"), GC, Star("s"), Lit(":"), Star("s"), Lit("string"),
      Star("s"), Lit(";"), Star("."), Lit(word)>>
\* @Name\s*\(\s*\)\s*
Decorator(name) ==
    <<Lit("@" \o name), Star("s"), Lit("("), Star("s"), Lit(")"), Star("s")>>

property_patterns == <<StringProperty("cnpj"), StringProperty("CNPJ"),
                       Decorator("IsString") \o StringProperty("cnpj"),
                       Decorator("IsNotEmpty") \o StringProperty("cnpj")>>

\* the CNPJField find_nest_specific_patterns appends for a match:
\* line_number is match.start() + 1
NestField(file_path, m, field_type, label) ==
    CNPJField(file_path, (m.start - 1) + 1, m.caps[1], field_type, Null,
              label \o m.caps[1], "nest_bff", "MEDIUM", "NEEDS_ANALYSIS",
              "Revisar validacao de CNPJ", "2-4 horas")

RECURSIVE NestFieldsOfMatches(_, _, _, _, _)
\* the loop over the matches of one pattern: a field for every match whose
\* name holds cnpj
NestFieldsOfMatches(file_path, matches, j, field_type, label) ==
    IF j > Len(matches) THEN <<>>
    ELSE (IF Contains(Lower(matches[j].caps[1]), "cnpj")
          THEN <<NestField(file_path, matches[j], field_type, label)>>
          ELSE <<>>)
         \o NestFieldsOfMatches(file_path, matches, j + 1, field_type, label)

RECURSIVE NestFieldsOfPatterns(_, _, _, _, _, _, _)
\* the loop over a list of patterns
NestFieldsOfPatterns(pats, ci, content, file_path, k, field_type, label) ==
    IF k > Len(pats) THEN <<>>
    ELSE NestFieldsOfMatches(file_path, FindIter(pats[k], content, ci, 1), 1,
                             field_type, label)
         \o NestFieldsOfPatterns(pats, ci, content, file_path, k + 1,
                                 field_type, label)

\* NestAnalyzer.find_nest_specific_patterns
FindNestSpecificPatterns(content, file_path) ==
    NestFieldsOfPatterns(dto_patterns, FALSE, content, file_path, 1,
                         "NESTJS_DTO", "DTO NestJS: ")
    \o NestFieldsOfPatterns(property_patterns, TRUE, content, file_path, 1,
                            "NESTJS_PROPERTY", "Propriedade NestJS: ")

\* <tag>([^<]*cnpj[^<]*)</tag>
PentahoElement(tag) ==
    <<Lit("<" \o tag \o ">"), GO, Star("nlt"), Lit("cnpj"), Star("nlt"), GC,
      Lit("</" \o tag \o ">")>>

pentaho_field_patterns ==
    <<PentahoElement("name"), PentahoElement("field_name"),
      PentahoElement("column_name")>>

\* the CNPJField find_pentaho_specific_patterns appends for a match:
\* line_number is content[:match.start()].count('\n') + 1
PentahoField(content, file_path, m) ==
    CNPJField(file_path, CountChar(content, "\n", m.start - 1) + 1,
              m.caps[1], "PENTAHO_FIELD", Null,
              "Campo Pentaho: " \o m.caps[1], "etl_pentaho", "MEDIUM",
              "NEEDS_ANALYSIS", "Revisar validacao de CNPJ", "2-4 horas")

\* the loop over the matches of one pattern
PentahoFieldsOfMatches(content, file_path, matches) ==
    [j \in 1..Len(matches) |-> PentahoField(content, file_path, matches[j])]

RECURSIVE PentahoFieldsOfPatterns(_, _, _)
PentahoFieldsOfPatterns(content, file_path, k) ==
    IF k > Len(pentaho_field_patterns) THEN <<>>
    ELSE PentahoFieldsOfMatches(content, file_path,
                                FindIter(pentaho_field_patterns[k], content,
                                         TRUE, 1))
         \o PentahoFieldsOfPatterns(content, file_path, k + 1)

\* ETLAnalyzer.find_pentaho_specific_patterns
FindPentahoSpecificPatterns(content, file_path) ==
    PentahoFieldsOfPatterns(content, file_path, 1)

-----------------------------------------------------------------------------
(* Finder runs: one call of a finder of fields on one scanned file *)

MaxLines == 2

\* the lines the scanned file is made of
FinderLines == {
    "export class CnpjDto {", "  nr_cnpj: string; // cnpj",
    "<name>nr_cnpj</name>", "  cpf_cnpj CHAR(14),", "  NR_CNPJ VARCHAR(14),",
    "$table->String('cnpj', 14);",
    "$table->addColumn('cnpj', 'string', ['length' => 14])" }

FinderContents ==
    UNION { [1..n -> FinderLines] : n \in 1..MaxLines }

\* what a finder returned
Found(by, fields) == [by |-> by, fields |-> fields]

InitFinder ==
    /\ \E lines \in FinderContents :
          scanned = <<[file_path |-> "src/empresa.dto.ts", content |-> lines]>>
    /\ verdict = NoVerdict
    /\ project = <<>> /\ filters = NoFilters /\ apc = IdlePc
    /\ warnings = <<>> /\ result = NoResult
    /\ ftype = "" /\ fsize = Null
    /\ FactoryIdle /\ ObjectsIdle /\ PoolIdle /\ RegistryIdle
    /\ SessionIdle

FinderUnchanged ==
    UNCHANGED <<session, registry, ftype, fsize, ptag, manifest, analyzer, raised,
                project, filters, apc, scanned, warnings, result, pool>>

\* BaseAnalyzer.find_cnpj_fields(files)
CallFindCnpjFields ==
    /\ verdict = NoVerdict
    /\ verdict' = Found("find_cnpj_fields",
                        FindCnpjFields("nest_bff", scanned, 1))
    /\ FinderUnchanged

\* the loop of NestAnalyzer.analyze_project over the files, calling
\* find_nest_specific_patterns(file_info['content'], file_info['file_path'])
CallFindNestSpecificPatterns ==
    /\ verdict = NoVerdict
    /\ verdict' = Found("find_nest_specific_patterns",
                        FindNestSpecificPatterns(JoinLines(scanned[1].content),
                                                 scanned[1].file_path))
    /\ FinderUnchanged

\* the loop of ETLAnalyzer.analyze_project over the files, calling
\* find_pentaho_specific_patterns
CallFindPentahoSpecificPatterns ==
    /\ verdict = NoVerdict
    /\ verdict' = Found("find_pentaho_specific_patterns",
                        FindPentahoSpecificPatterns(
                            JoinLines(scanned[1].content),
                            scanned[1].file_path))
    /\ FinderUnchanged

\* PHPMigrationAnalyzer.analyze_migration_file(file_path, content)
CallAnalyzeMigrationFile ==
    /\ verdict = NoVerdict
    /\ verdict' = Found("analyze_migration_file",
                        AnalyzeMigrationFile(scanned[1].file_path,
                                             scanned[1].content, 1))
    /\ FinderUnchanged

NextFinder ==
    \/ CallFindCnpjFields
    \/ CallAnalyzeMigrationFile
    \/ CallFindNestSpecificPatterns
    \/ CallFindPentahoSpecificPatterns

SpecFinder == InitFinder /\ [][NextFinder]_vars

\* C24: the line_number of every finding of a file is the 1-based index of
\* a line of the file: it lies between 1 and the number of lines of the
\* file.
C24_LineNumberIsLineIndex ==
    (verdict # NoVerdict /\ verdict.by # "analyze_migration_file") =>
        \A k \in 1..Len(verdict.fields) :
           /\ verdict.fields[k].line_number >= 1
           /\ verdict.fields[k].line_number <= Len(scanned[1].content)

\* the file with every letter of its lines in lower case
LowerCased(file) ==
    [file EXCEPT !.content = [n \in 1..Len(file.content) |->
                                 Lower(file.content[n])]]

\* what the finder returns for the list files
FinderOn(by, files) ==
    IF by = "find_cnpj_fields" THEN FindCnpjFields("nest_bff", files, 1)
    ELSE AnalyzeMigrationFile(files[1].file_path, files[1].content, 1)

\* two findings with the same attributes but for context
SameButContext(a, b) ==
    \A attribute \in (DOMAIN a) \ {"context"} : a[attribute] = b[attribute]

\* C22: the scanner gives a finding for a line exactly when it gives one
\* for a line that differs from it in letter casing only, and the two
\* findings agree in every attribute except context.
C22_CasingDoesNotChangeFindings ==
    verdict.by \in {"find_cnpj_fields", "analyze_migration_file"} =>
        \E other \in {FinderOn(verdict.by, <<LowerCased(scanned[1])>>)} :
           /\ Len(other) = Len(verdict.fields)
           /\ \A k \in 1..Len(other) :
                 SameButContext(verdict.fields[k], other[k])

-----------------------------------------------------------------------------
(* The driver's overall impact and project report, and the reading of the
   report by GeneralAnalyzer *)

ImpactNames == {"LOW", "MEDIUM", "HIGH", "CRITICAL"}

\* a member of an ImpactLevel enumeration: the module of the class and the
\* name of the member; members of two classes are different keys
Member(module, name) == [module |-> module, name |-> name]

\* its value with the name of the member in its place
ImpactName(impact) == impact

\* ImpactLevel.<impact>.value
ImpactValue(impact) ==
    CASE impact = "LOW" -> "baixo" [] impact = "MEDIUM" -> "medio"
      [] impact = "HIGH" -> "alto" [] impact = "CRITICAL" -> "critico"

\* Status.<status>.value
StatusValue(status) ==
    CASE status = "COMPATIBLE" -> "compativel"
      [] status = "ATTENTION" -> "atencao"
      [] status = "INCOMPATIBLE" -> "incompativel"
      [] status = "NEEDS_ANALYSIS" -> "precisa_analise"

\* the entries of cnpj_fields_found: an object of class cls with the
\* attributes of field, a dictionary, or a string
FindingObject(cls, field) == [shape |-> "object", cls |-> cls, field |-> field]
DictEntry(dict) == [shape |-> "dict", dict |-> dict]
StrEntry(text) == [shape |-> "str", text |-> text]

\* hasattr(field, 'to_dict'): the dataclass CNPJField of base_analyzer has
\* no to_dict, CNPJFieldBase has
HasToDict(entry) == entry.cls = "CNPJFieldBase"

\* the module of the ImpactLevel class the object's impact_level is of
EnumModule(entry) ==
    IF entry.cls = "CNPJFieldBase" THEN "dto.cnpj_field_interface"
    ELSE "analyzers.base_analyzer"

\* CNPJFieldBase.to_dict
ToDict(field) ==
    [file_path |-> field.file_path, line_number |-> field.line_number,
     field_name |-> field.field_name, field_type |-> field.field_type,
     field_size |-> field.field_size, context |-> field.context,
     project_type |-> field.project_type,
     impact_level |-> ImpactValue(field.impact_level),
     status |-> StatusValue(field.status),
     action_needed |-> field.action_needed,
     estimated_effort |-> field.estimated_effort]

\* the dictionary _save_individual_report builds for a string
SerializedString ==
    [file_path |-> "Campo CNPJ", line_number |-> "-", field_name |-> "CNPJ",
     field_type |-> "UNKNOWN", field_size |-> Null,
     impact_level |-> "MEDIUM", status |-> "NEEDS_ANALYSIS",
     action_needed |-> ManualReview, estimated_effort |-> "4-8 horas"]

\* the branch of _save_individual_report for objects without to_dict, for
\* an object that has none of the attributes: every getattr gives its
\* default
SerializedDefaults ==
    [file_path |-> "Unknown", line_number |-> 0, field_name |-> "Unknown",
     field_type |-> "Unknown", field_size |-> Null, context |-> "",
     project_type |-> "unknown", impact_level |-> "MEDIUM",
     status |-> "NEEDS_ANALYSIS", action_needed |-> ManualReview,
     estimated_effort |-> "4-8 horas"]

\* the same branch for an object with the attributes of a CNPJField
SerializedAttributes(field) ==
    [file_path |-> field.file_path, line_number |-> field.line_number,
     field_name |-> field.field_name, field_type |-> field.field_type,
     field_size |-> field.field_size, context |-> field.context,
     project_type |-> field.project_type,
     impact_level |-> ImpactValue(field.impact_level),
     status |-> StatusValue(field.status),
     action_needed |-> field.action_needed,
     estimated_effort |-> field.estimated_effort]

\* the body of the loop over the fields of _save_individual_report
SerializableField(entry) ==
    IF entry.shape = "str" THEN SerializedString
    ELSE IF entry.shape = "dict" THEN SerializedDefaults
    ELSE IF HasToDict(entry) THEN ToDict(entry.field)
    ELSE SerializedAttributes(entry.field)

\* CNPJAnalyzerModular._save_individual_report: the dictionary written to
\* <project_name>_analysis.json
SaveIndividualReport(res) ==
    [res EXCEPT !.cnpj_fields_found =
        [k \in 1..Len(res.cnpj_fields_found) |->
            SerializableField(res.cnpj_fields_found[k])]]

\* the keys of impact_counts
ImpactCountsKeys == {Member("cnpj_analyzer_modular", n) : n \in ImpactNames}

\* the branch of the loop of _determine_overall_impact for a string
ImpactOfString(text) ==
    IF Contains(text, "CRITICAL") \/ Contains(text, "critico") THEN "CRITICAL"
    ELSE IF Contains(text, "HIGH") \/ Contains(text, "alto") THEN "HIGH"
    ELSE IF Contains(text, "MEDIUM") \/ Contains(text, "medio") THEN "MEDIUM"
    ELSE "LOW"

\* field.get('impact_level', 'MEDIUM').lower()
ImpactLevelStr(dict) ==
    IF "impact_level" \in DOMAIN dict THEN Lower(dict.impact_level)
    ELSE Lower("MEDIUM")

\* the branch for a dictionary
ImpactOfDict(impact_level_str) ==
    IF Contains(impact_level_str, "critical")
          \/ Contains(impact_level_str, "critico") THEN "CRITICAL"
    ELSE IF Contains(impact_level_str, "high")
          \/ Contains(impact_level_str, "alto") THEN "HIGH"
    ELSE IF Contains(impact_level_str, "medium")
          \/ Contains(impact_level_str, "medio") THEN "MEDIUM"
    ELSE "LOW"

\* the member of impact_counts the entry is counted in, or KeyError when
\* impact_counts[field.impact_level] has no such key
CountedIn(entry) ==
    IF entry.shape = "str" THEN ImpactOfString(entry.text)
    ELSE IF entry.shape = "dict" THEN ImpactOfDict(ImpactLevelStr(entry.dict))
    ELSE IF Member(EnumModule(entry), entry.field.impact_level)
               \in ImpactCountsKeys
         THEN entry.field.impact_level
    ELSE "KeyError"

\* CNPJAnalyzerModular._determine_overall_impact: the name of the member it
\* returns, or the exception it raises
DetermineOverallImpact(res) ==
    IF res.kind = "error" THEN [raised |-> NoError, impact |-> "LOW"]
    ELSE LET counted == {CountedIn(res.cnpj_fields_found[k]) :
                            k \in 1..Len(res.cnpj_fields_found)}
         IN IF "KeyError" \in counted
            THEN [raised |-> "KeyError", impact |-> ""]
            ELSE [raised |-> NoError,
                  impact |-> IF "CRITICAL" \in counted THEN "CRITICAL"
                             ELSE IF "HIGH" \in counted THEN "HIGH"
                             ELSE IF "MEDIUM" \in counted THEN "MEDIUM"
                             ELSE "LOW"]

\* sum(1 for f in fields if f.get('impact_level') == value)
CountImpact(fields, value) ==
    Cardinality({k \in 1..Len(fields) : fields[k].impact_level = value})

\* GeneralAnalyzer._analyze_single_project on the data of a report
ProjectSummary(data) ==
    [total_fields |-> Len(data.cnpj_fields_found),
     critical_fields |-> CountImpact(data.cnpj_fields_found, "critico"),
     high_impact_fields |-> CountImpact(data.cnpj_fields_found, "alto"),
     medium_impact_fields |-> CountImpact(data.cnpj_fields_found, "medio"),
     low_impact_fields |-> CountImpact(data.cnpj_fields_found, "baixo"),
     overall_impact |-> data.overall_impact]

-----------------------------------------------------------------------------
(* Report runs: one result handed to _determine_overall_impact, or to
   _save_individual_report and then read by GeneralAnalyzer *)

MaxEntries == 2

\* a finding of each impact level, as find_cnpj_fields builds them
SampleLines == <<"nr_cnpj VARCHAR(11)", "nr_cnpj BIGINT", "nr_cnpj VARCHAR(14)",
                 "nr_cnpj VARCHAR(18)">>
SampleField(n) ==
    AnalyzeCnpjField("etl_transformation", "db/schema.sql", n, SampleLines[n])[1]

\* the entries of cnpj_fields_found: objects of the two classes,
\* dictionaries and strings
EntryChoices ==
    {FindingObject("CNPJField", SampleField(n)) : n \in 1..Len(SampleLines)}
    \cup {FindingObject("CNPJFieldBase", SampleField(2)),
          DictEntry(ToDict(SampleField(2))),
          DictEntry([field_name |-> "nr_cnpj"]),
          StrEntry("CNPJField(field_name='nr_cnpj', impact_level=<ImpactLevel.HIGH: 'alto'>)"),
          StrEntry("nr_cnpj")}

\* the dictionary an analyzer returns, with the name the driver adds
ProjectResult(fields) ==
    [kind |-> "result", project_name |-> "acme",
     project_type |-> "etl_transformation", cnpj_fields_found |-> fields,
     overall_impact |-> "baixo"]

ReportResults ==
    {ProjectResult(<<>>)}
    \cup UNION { {ProjectResult(fields) : fields \in [1..n -> EntryChoices]} :
                   n \in 1..MaxEntries }

InitReport ==
    /\ result \in ReportResults
    /\ verdict = NoVerdict
    /\ project = <<>> /\ filters = NoFilters /\ apc = IdlePc
    /\ scanned = <<>> /\ warnings = <<>>
    /\ ftype = "" /\ fsize = Null
    /\ FactoryIdle /\ ObjectsIdle /\ PoolIdle /\ RegistryIdle
    /\ SessionIdle

ReportUnchanged ==
    UNCHANGED <<session, registry, ftype, fsize, ptag, manifest, analyzer, raised,
                project, filters, apc, scanned, warnings, result, pool>>

\* self._determine_overall_impact(result)
CallDetermineOverallImpact ==
    /\ verdict = NoVerdict
    /\ \E out \in {DetermineOverallImpact(result)} :
          verdict' = [by |-> "_determine_overall_impact",
                      raised |-> out.raised, impact |-> out.impact]
    /\ ReportUnchanged

\* self._save_individual_report(result, output_dir)
CallSaveIndividualReport ==
    /\ verdict = NoVerdict
    /\ verdict' = [by |-> "_save_individual_report",
                   report |-> SaveIndividualReport(result)]
    /\ ReportUnchanged

\* GeneralAnalyzer._analyze_single_project reads the report
CallAnalyzeSingleProject ==
    /\ verdict.by = "_save_individual_report"
    /\ verdict' = [by |-> "_analyze_single_project",
                   report |-> verdict.report,
                   summary |-> ProjectSummary(verdict.report)]
    /\ ReportUnchanged

NextReport ==
    \/ CallDetermineOverallImpact
    \/ CallSaveIndividualReport
    \/ CallAnalyzeSingleProject

SpecReport == InitReport /\ [][NextReport]_vars

\* the result holds the objects an analyzer built, and nothing else
HoldsFindingObjects(res) ==
    \A k \in 1..Len(res.cnpj_fields_found) :
       res.cnpj_fields_found[k].shape = "object"

\* the highest impact level among the findings, LOW when there is none
HighestImpact(res) ==
    IF res.cnpj_fields_found = <<>> THEN "LOW"
    ELSE CHOOSE impact \in ImpactNames :
            /\ \E k \in 1..Len(res.cnpj_fields_found) :
                  res.cnpj_fields_found[k].field.impact_level = impact
            /\ \A k \in 1..Len(res.cnpj_fields_found) :
                  Rank(res.cnpj_fields_found[k].field.impact_level)
                     <= Rank(impact)

\* C26: for a result whose cnpj_fields_found holds the finding objects of
\* an analyzer, _determine_overall_impact raises nothing and returns the
\* highest impact level among them, LOW when there are none.
C26_OverallImpactIsHighest ==
    (verdict.by = "_determine_overall_impact" /\ HoldsFindingObjects(result)) =>
        /\ verdict.raised = NoError
        /\ verdict.impact = HighestImpact(result)

\* the attributes of a finding
FindingAttributes ==
    {"file_path", "line_number", "field_name", "field_type", "field_size",
     "context", "project_type", "impact_level", "status", "action_needed",
     "estimated_effort"}

\* C21: every entry of cnpj_fields_found in the report that
\* _save_individual_report writes has the attributes of a finding, with
\* impact_level and status as the lower-case values of their enumerations,
\* whether the entry of the result was an object, a dictionary or a string.
C21_ReportEntriesAreFullFindings ==
    verdict.by = "_save_individual_report" =>
        \A k \in 1..Len(verdict.report.cnpj_fields_found) :
           LET written == verdict.report.cnpj_fields_found[k]
           IN /\ FindingAttributes \subseteq DOMAIN written
              /\ written.impact_level \in {ImpactValue(n) : n \in ImpactNames}
              /\ written.status
                    \in {StatusValue(n) : n \in {"COMPATIBLE", "ATTENTION",
                                                 "INCOMPATIBLE",
                                                 "NEEDS_ANALYSIS"}}

-----------------------------------------------------------------------------
(* Sessions: consecutive analyses through one AnalyzerFactory.  The lists
   of the process are kept as objects: a reference is a place in heap, and
   extend changes the object it is called on *)

MaxRuns == 2

\* the files of the project directories analysed in a session
SchemaFile == [path |-> "projects/acme/db/schema.sql",
               content |-> <<"cnpj VARCHAR(11)">>, readable |-> TRUE]
LoadFile == [path |-> "projects/acme/etl/load.sql",
             content |-> <<"  cpf_cnpj CHAR(14),">>, readable |-> TRUE]

SessionDirectories == { <<SchemaFile, LoadFile>>, <<LoadFile>> }

\* one call factory.analyze_project(project_path, filters)
SessionRuns == [dir : SessionDirectories, filters : FilterChoices]

SessionPlans == UNION { [1..n -> SessionRuns] : n \in 1..MaxRuns }

\* a method that hands out the one list object it built first
GetSkipPatternsHeld(heap, an) ==
    IF heap = <<>> THEN [heap |-> <<an.skips>>, ref |-> 1]
    ELSE [heap |-> heap, ref |-> 1]

\* self.get_skip_patterns(): the list literal of the method builds a new
\* list object at every call
GetSkipPatterns(heap, an) ==
    [heap |-> Append(heap, an.skips), ref |-> Len(heap) + 1]

\* list.extend: the object grows in place
Extend(heap, ref, items) == [heap EXCEPT ![ref] = @ \o items]

\* scan_files down to the loop: skip_patterns, extended in place with the
\* caller's, and include_patterns
ScanLists(got, flt) ==
    [heap |-> IF flt = NoFilters THEN got.heap
              ELSE Extend(got.heap, got.ref, flt.skip_patterns),
     skip_patterns |-> got.ref,
     include_patterns |-> IF flt = NoFilters THEN <<>>
                          ELSE flt.include_patterns]

RECURSIVE ScanLoop(_, _, _, _, _)
\* the loops of scan_files over the files of the directory
ScanLoop(extensions, work, skips, includes, i) ==
    IF i > Len(work) THEN <<>>
    ELSE (IF /\ ~ AnyPatternIn(work[i].path, skips)
             /\ (includes = <<>> \/ AnyPatternIn(work[i].path, includes))
             /\ work[i].readable
          THEN <<[file_path |-> work[i].path, content |-> work[i].content,
                  extension |-> ExtensionOf(extensions, work[i].path, 1)]>>
          ELSE <<>>)
         \o ScanLoop(extensions, work, skips, includes, i + 1)

\* BaseAnalyzer.analyze_project on the files scan_files returned, with the
\* name the factory adds
SessionResult(an, files) ==
    [kind |-> "result",
     project_name |-> "acme",
     project_type |-> an.project_type,
     total_files_scanned |-> Len(files),
     cnpj_fields_found |-> FindCnpjFields(an.project_type, files, 1),
     validations |-> FindHits(validation_patterns, files, 1),
     frontend_masks |-> FindHits(mask_patterns, files, 1)]

\* analyzer.analyze_project(project_path, filters) with the list objects
\* of the process: the objects afterwards and the dictionary returned
AnalyzeWith(an, run, lists) ==
    [heap |-> lists.heap,
     result |-> SessionResult(an,
                   ScanLoop(an.extensions,
                            WorkList(an.extensions, run.dir, 1),
                            lists.heap[lists.skip_patterns],
                            lists.include_patterns, 1))]

\* factory.analyze_project: create_analyzer makes a new analyzer, which
\* analyses the project
FactoryAnalyzeProject(heap, run) ==
    AnalyzeWith(PlainAnalyzer, run,
                ScanLists(GetSkipPatterns(heap, PlainAnalyzer), run.filters))

InitSession ==
    /\ \E plan \in SessionPlans :
          session = [plan |-> plan, done |-> 0, created |-> 0,
                     heap |-> <<>>, results |-> <<>>]
    /\ ClassifierIdle /\ FactoryIdle /\ ProjectIdle /\ ObjectsIdle
    /\ PoolIdle /\ RegistryIdle

\* the next factory.analyze_project(project_path, filters) of the session
CallSessionAnalyzeProject ==
    /\ session # NoSession
    /\ session.done < Len(session.plan)
    /\ \E out \in {FactoryAnalyzeProject(session.heap,
                                         session.plan[session.done + 1])} :
          session' = [session EXCEPT !.done = @ + 1,
                                     !.created = @ + 1,
                                     !.heap = out.heap,
                                     !.results = Append(@, out.result)]
    /\ UNCHANGED <<registry, ftype, fsize, verdict, ptag, manifest, analyzer,
                   raised, project, filters, apc, scanned, warnings, result,
                   pool>>

NextSession == CallSessionAnalyzeProject

SpecSession == InitSession /\ [][NextSession]_vars

\* the dictionary each call returns as the first call of a process
AloneResults ==
    [run \in SessionRuns |-> FactoryAnalyzeProject(<<>>, run).result]

AnalysedAlone(run) == AloneResults[run]

\* C25: every analysis of a session returns the Project Result that the
\* same call returns when nothing was analysed before it: no skip pattern,
\* include pattern, finding or counter of an earlier call shows in it.
C25_RunsAreStateless ==
    session # NoSession =>
        \A k \in 1..session.done :
           session.results[k] = AnalysedAlone(session.plan[k])

\* a run without filters on a directory with a file under etl/ after a run
\* that skipped etl/
C25_Witness ==
    /\ session # NoSession
    /\ session.done = 2
    /\ session.plan[1].filters # NoFilters
    /\ session.plan[1].filters.skip_patterns = <<"etl/">>
    /\ session.plan[2].filters = NoFilters
    /\ session.results[2].total_files_scanned = 2
    /\ session.results[1].total_files_scanned = 1

====
